---- MODULE Spec2Model ----
(***************************************************************************)
(* The incremental enrichment pipeline of RTT-Reader: the two cached       *)
(* passes over the generation service (etl.py), the taxonomy               *)
(* consolidation, the materialization into the relational store and the    *)
(* vector table, and the OAuth sync that drives them (sync.py).            *)
(*                                                                         *)
(* One data directory (one sync target) and one worker process are         *)
(* modelled.  Durable state is the raw-record CSV, the three JSON files    *)
(* and their ".tmp" siblings, calendar.db and the LanceDB table; process   *)
(* state is the position of the running operation, its locals and the      *)
(* module-level handle cache of db.py.  sync.py hands the target's data    *)
(* directory to the functions of etl.py; with one target the directory is  *)
(* implicit, and run_etl is the body of etl.main.                          *)
(*                                                                         *)
(* Around the pipeline of that one target stand the dispatcher of the bot  *)
(* (telegram_bot.py), the incremental syncs of several data directories,   *)
(* a vector builder over records that carry their start and end (the       *)
(* normalizer and the embedding text of etl.py), the OAuth links of        *)
(* google_auth.py and the sessions of agent.py, each with a specification  *)
(* of its own.                                                             *)
(***************************************************************************)
EXTENDS Integers, Sequences, FiniteSets, TLC

----------------------------------------------------------------------------
(* Bounds of the model *)

\* operations (/sync, /process) started in one behaviour
MaxOps == 2
\* syncs started in one behaviour of a target that is driven by /sync alone
MaxSyncs == 3
\* process kills in one behaviour
MaxCrashes == 1
\* records in one fetched window
MaxWindow == 2
\* batch_size of run_pass1_discovery (50 in etl.py:150), scaled to the windows
DiscoveryBatch == 2
\* batch_size of run_pass2_enrichment (20 in etl.py:347), scaled to the windows
EnrichmentBatch == 1

\* updates (/sync, /process, documents) the bot receives in one behaviour
MaxUpdates == 3
\* incremental syncs started over all data directories in one behaviour
MaxDirSyncs == 3

\* the days, after the first, on which the records of a builder start and end
MaxDay == 2

\* steps of the clock in one behaviour
MaxTicks == 3
\* exchange_code calls in one behaviour
MaxExchanges == 3
\* run_agent calls in one behaviour
MaxCalls == 3

\* range(3) of the retry loops
MaxAttempts == 3

----------------------------------------------------------------------------
(* Raw records *)

\* event identifiers known to the calendar provider
Ids == {"a", "b"}

\* the row _raw_to_dicts / export_to_csv derive from a provider event; the two
\* events carry the same title
RawRecord(id) == [event_id |-> id, summary |-> "gym"]

RECURSIVE SeqIds(_)
\* the identifiers of a list of records, as a set
SeqIds(evs) == IF evs = <<>> THEN {} ELSE {Head(evs).event_id} \cup SeqIds(Tail(evs))

\* the order in which the provider and an export list the events
Before(x, y) == x = "a" /\ y = "b"

\* the windows the provider may return: each event listed once, in order
Windows ==
    {<<>>} \cup
    UNION {{w \in [1..n -> Ids] : \A j, k \in 1..n : j < k => Before(w[j], w[k])}
           : n \in 1..MaxWindow}

\* the event lists parse_upload may yield: VEVENTs of one export may share a
\* UID (an overridden instance of a recurring event), and nothing removes them
Uploads ==
    UNION {{u \in [1..n -> Ids] : \A j, k \in 1..n : j < k => ~Before(u[k], u[j])}
           : n \in 1..MaxWindow}

\* _raw_to_dicts
_raw_to_dicts(w) == [k \in 1..Len(w) |-> RawRecord(w[k])]

----------------------------------------------------------------------------
(* Files *)

DISCOVERY_CACHE == "discovery_cache.json"
ENRICHMENT_CACHE == "enrichment_cache.json"
TAXONOMY_FILE == "taxonomy.json"

\* a save_cache that writes the file in place
TmpInPlace(path) == path

\* save_cache: tmp = path + ".tmp"
TmpPath(path) == path \o ".tmp"

JsonPaths == {DISCOVERY_CACHE, ENRICHMENT_CACHE, TAXONOMY_FILE}
Paths == JsonPaths \cup {TmpPath(p) : p \in JsonPaths}

\* a mapping with no entry
EmptyMap == [id \in {} |-> <<>>]

AbsentFile == [st |-> "absent", data |-> EmptyMap]
\* a file opened for writing whose JSON text is not complete yet
PartialFile == [st |-> "partial", data |-> EmptyMap]
FullFile(d) == [st |-> "full", data |-> d]

----------------------------------------------------------------------------
(* What the generation service may answer *)

\* Python's None / JSON null
Null == "null"

\* a well-formed enrichment object, as the prompt asks for it
EnrichedA(id) ==
    [event_id |-> id, sub_activities |-> <<"lift", "stretch">>, people |-> <<"sam">>,
     locations |-> <<"ymca">>, categories |-> <<"fitness">>, work_depth |-> Null,
     mood |-> "positive", is_productive |-> TRUE, is_wasted_time |-> FALSE]

\* an enrichment object that parses but ignores the instructions: no
\* sub-activity, a category the taxonomy does not have
EnrichedB(id) ==
    [event_id |-> id, sub_activities |-> <<>>, people |-> <<>>,
     locations |-> <<>>, categories |-> <<"invented">>, work_depth |-> Null,
     mood |-> Null, is_productive |-> FALSE, is_wasted_time |-> TRUE]

\* what the service makes of each event: it follows the instructions for one
\* and not for the other
ServiceObjects(id) == IF id = "a" THEN {EnrichedA(id)} ELSE {EnrichedB(id)}

\* the identifier sets an answer may cover: none of the requested ones, the
\* requested ones, or every event the service has seen, asked for or not
AnswerSets(requested) == {{}, requested, Ids}

RECURSIVE ObjectLists(_)
\* the JSON arrays with one object per identifier of K, in the order of the events
ObjectLists(K) ==
    IF K = {} THEN {<<>>}
    ELSE LET id == CHOOSE x \in K : \A y \in K : ~Before(y, x) IN
         {<<r>> \o l : r \in ServiceObjects(id), l \in ObjectLists(K \ {id})}

\* the JSON arrays of objects the service may return to a request
EnrichmentLists(requested) == UNION {ObjectLists(K) : K \in AnswerSets(requested)}

\* answers to one enrichment request: an exception or unparseable text, JSON
\* that is no array, an array with an element that is no object, an array of
\* objects
EnrichmentResponses(requested) ==
    {[kind |-> "fail", items |-> <<>>], [kind |-> "notlist", items |-> <<>>],
     [kind |-> "nonobject", items |-> <<>>]}
    \cup {[kind |-> "list", items |-> l] : l \in EnrichmentLists(requested)}

\* the tag list the service proposes
ServiceTags == <<"workout">>

\* answers to one discovery request: an exception or unparseable text, JSON
\* that is no object, an object mapping some identifiers to tag lists
DiscoveryResponses(requested) ==
    {[kind |-> "fail", map |-> EmptyMap], [kind |-> "notdict", map |-> EmptyMap]}
    \cup {[kind |-> "dict", map |-> [id \in K |-> ServiceTags]] : K \in AnswerSets(requested)}

\* a taxonomy of the requested shape
ServiceTaxonomy == [well_formed |-> TRUE, categories |-> <<[name |-> "fitness"]>>]
\* JSON that parses but has no "categories" list
MalformedTaxonomy == [well_formed |-> FALSE, categories |-> <<>>]
NoTaxonomy == [well_formed |-> FALSE, categories |-> <<>>]

\* answers to the consolidation request
ConsolidationResponses ==
    {[kind |-> "fail", value |-> NoTaxonomy],
     [kind |-> "json", value |-> ServiceTaxonomy],
     [kind |-> "json", value |-> MalformedTaxonomy]}

----------------------------------------------------------------------------
(* The cached passes: pure parts *)

\* load_cache
load_cache(file) == IF file.st = "absent" THEN EmptyMap ELSE file.data

\* events[i : i + batch_size], with i counted from 1
Batch(evs, i, size) ==
    SubSeq(evs, i, IF i + size - 1 < Len(evs) THEN i + size - 1 ELSE Len(evs))

\* a pass that dispatches the batch as it is
WholeBatch(batch, cache) == batch

\* uncached = [ev for ev in batch if ev["event_id"] not in cache]
Uncached(batch, cache) == SelectSeq(batch, LAMBDA ev : ev.event_id \notin DOMAIN cache)

\* a retry test that is off by one
RetryOnceMore(attempt) == attempt < MaxAttempts

\* the retry test of both loops: attempt < 2
MayRetry(attempt) == attempt < MaxAttempts - 1

\* {ev["event_id"]: [] for ev in batch}
DiscoveryDegraded(batch) == [id \in SeqIds(batch) |-> <<>>]

\* one element of the minimal enrichment
MinimalEnrichment(ev) ==
    [event_id |-> ev.event_id, sub_activities |-> <<ev.summary>>, people |-> <<>>,
     locations |-> <<>>, categories |-> <<>>, work_depth |-> Null,
     mood |-> Null, is_productive |-> FALSE, is_wasted_time |-> FALSE]

\* the minimal enrichment of a batch
EnrichmentDegraded(batch) == [k \in 1..Len(batch) |-> MinimalEnrichment(batch[k])]

\* cache.update(result)
CacheUpdate(cache, map) ==
    [id \in DOMAIN cache \cup DOMAIN map |-> IF id \in DOMAIN map THEN map[id] ELSE cache[id]]

RECURSIVE MapResults(_, _)
\* for result in results: cache[result["event_id"]] = result
MapResults(cache, results) ==
    IF results = <<>> THEN cache
    ELSE MapResults(CacheUpdate(cache, [id \in {Head(results).event_id} |-> Head(results)]),
                    Tail(results))

\* batch_size of the pass
BatchSize(stage) == IF stage = "discovery" THEN DiscoveryBatch ELSE EnrichmentBatch

\* the cache file of the pass
CachePath(stage) ==
    IF stage = "discovery" THEN DISCOVERY_CACHE
    ELSE IF stage = "enrichment" THEN ENRICHMENT_CACHE ELSE TAXONOMY_FILE

----------------------------------------------------------------------------
(* Materialization: pure parts *)

RECURSIVE Join(_)
\* ",".join(list)
Join(l) ==
    IF l = <<>> THEN ""
    ELSE IF Len(l) = 1 THEN l[1] ELSE l[1] \o "," \o Join(Tail(l))

\* enrichment_cache.get(eid, {}) read through the .get defaults of the loop body
Enrichment(cache, ev) ==
    IF ev.event_id \in DOMAIN cache THEN cache[ev.event_id]
    ELSE [event_id |-> ev.event_id, sub_activities |-> <<ev.summary>>, people |-> <<>>,
          locations |-> <<>>, categories |-> <<>>, work_depth |-> Null,
          mood |-> Null, is_productive |-> FALSE, is_wasted_time |-> FALSE]

\* the events row of one record
EventRow(ev, en) ==
    [event_id |-> ev.event_id, summary |-> ev.summary, categories |-> Join(en.categories),
     people |-> Join(en.people), locations |-> Join(en.locations),
     work_depth |-> en.work_depth, mood |-> en.mood,
     is_productive |-> en.is_productive, is_wasted_time |-> en.is_wasted_time]

\* primary_category = enrichment_categories[0] if enrichment_categories else None
PrimaryCategory(en) == IF en.categories = <<>> THEN Null ELSE en.categories[1]

\* the sub_activities rows of one record
SubActivityRows(ev, en) ==
    [k \in 1..Len(en.sub_activities) |->
        [event_id |-> ev.event_id, activity |-> en.sub_activities[k],
         category |-> PrimaryCategory(en), people |-> Join(en.people)]]

\* the event_people rows of one record
EventPeopleRows(ev, en) ==
    [k \in 1..Len(en.people) |-> [event_id |-> ev.event_id, person |-> en.people[k]]]

\* calendar.db: the file, how many of its three tables exist (events,
\* sub_activities, event_people, in the order create_database creates them) and
\* their committed rows
NoDb == [exists |-> FALSE, tables |-> 0, events |-> EmptyMap,
         sub_activities |-> <<>>, event_people |-> <<>>]

\* the body of the loop of create_database and of upsert_events
InsertEvent(d, ev, cache) ==
    LET en == Enrichment(cache, ev) IN
    [d EXCEPT !.events = CacheUpdate(d.events, [id \in {ev.event_id} |-> EventRow(ev, en)]),
              !.sub_activities = d.sub_activities \o SubActivityRows(ev, en),
              !.event_people = d.event_people \o EventPeopleRows(ev, en)]

RECURSIVE InsertEvents(_, _, _, _)
\* for event in events: if eid not in event_ids: continue; ...
InsertEvents(d, evs, cache, event_ids) ==
    IF evs = <<>> THEN d
    ELSE InsertEvents(IF Head(evs).event_id \in event_ids
                          THEN InsertEvent(d, Head(evs), cache) ELSE d,
                      Tail(evs), cache, event_ids)

\* upsert_events
upsert_events(d, evs, cache, event_ids) == InsertEvents(d, evs, cache, event_ids)

\* the loop and commit of create_database
create_database(d, evs, cache) == InsertEvents(d, evs, cache, SeqIds(evs))

\* primary_category = categories[0] if categories else ""
VectorCategory(en) == IF en.categories = <<>> THEN "" ELSE en.categories[1]

\* the vector records of one record: one per sub-activity
VectorRecords(ev, en) ==
    [k \in 1..Len(en.sub_activities) |->
        [event_id |-> ev.event_id, activity |-> en.sub_activities[k],
         parent_summary |-> ev.summary, category |-> VectorCategory(en),
         categories |-> Join(en.categories), people |-> Join(en.people)]]

RECURSIVE BuildRecords(_, _, _)
\* the record-building loop of create_vector_store and upsert_vectors
BuildRecords(evs, cache, event_ids) ==
    IF evs = <<>> THEN <<>>
    ELSE (IF Head(evs).event_id \in event_ids
              THEN VectorRecords(Head(evs), Enrichment(cache, Head(evs))) ELSE <<>>)
         \o BuildRecords(Tail(evs), cache, event_ids)

\* the LanceDB table "sub_activities" of calendar_vectors
NoTable == [exists |-> FALSE, rows |-> <<>>]

\* the raw-record log calendar_raw_full.csv
NoCsv == [exists |-> FALSE, rows |-> <<>>]

----------------------------------------------------------------------------
(* The incremental diff: pure parts *)

\* a diff whose set of stored identifiers stays empty
NoExistingIds(d) == {}

\* existing: SELECT event_id FROM events
ExistingIds(d) == DOMAIN d.events

\* a diff that keeps every fetched record
AllFetched(fetched, existing) == fetched

\* new_events: the fetched records whose event_id is not in existing
NewEvents(fetched, existing) == SelectSeq(fetched, LAMBDA ev : ev.event_id \notin existing)

----------------------------------------------------------------------------
(* State *)

VARIABLES
    csv,             \* calendar_raw_full.csv
    files,           \* the JSON files and their .tmp siblings
    db,              \* calendar.db
    vec,             \* the LanceDB table
    _vector_tables,  \* db.py: whether the process holds an open table handle
    pc,              \* where the running operation stands
    op,              \* "etl" (run_etl of /process), "bootstrap", "sync"
    stage,           \* "discovery", "taxonomy", "enrichment"
    events,          \* the records the passes and the materializer were given
    cache,           \* the in-memory cache of the running pass
    i,               \* the batch offset of the running pass
    attempt,         \* the attempt of the retry loop
    uncached,        \* the records of the request in flight
    result,          \* what the batch function returned
    taxonomy,        \* the taxonomy in memory
    fetched,         \* the fetched window
    new_ids,         \* new_ids of _sync_events
    outcome,         \* how the last operation ended
    errAt,           \* where it raised
    run,             \* observations of the running operation
    prev2,           \* the records and the result of the last returned enrichment pass
    crashed,         \* the batches a pass had persisted when the process was killed in it
    nops,            \* operations started
    ncrash           \* process kills

\* the bot of telegram_bot.py, which starts the operations
VARIABLES
    update_queue,    \* the updates received and not yet handed to a handler
    handlers,        \* the handler coroutines in flight
    users,           \* users.json: the status of each user, and whether their CSV exists
    nupd             \* updates received

\* the data directories of all users, for what one target's sync does to another's
VARIABLES
    dirs,                \* per user: the identifiers in each store of the directory
    _vector_table_dirs,  \* db.py: the keys of _vector_tables
    syncs,               \* per user: where the _sync_events of that directory stands
    last,                \* the user whose operation took the last step
    nsyncs               \* syncs started over all directories

\* one run of a vector builder over records that carry their start and end
VARIABLES
    timed_events,    \* the records handed to the builder
    enrichments,     \* the enrichment cache handed to the builder
    cursor,          \* records the loop of the builder has been through
    built,           \* the vector records built so far
    table,           \* the rows written to the table
    build            \* where the builder stands

\* the clock of the process
VARIABLES
    clock,           \* time.time(), in seconds
    nticks           \* steps the clock has taken

\* the OAuth links of google_auth.py
VARIABLES
    _oauth_pending,  \* nonce -> the user the link was made for and when
    issued,          \* every nonce create_auth_url has handed out, with user and time
    redeemed,        \* the exchanges that returned credentials, in order
    exchanged,       \* the last exchange_code call: its state, its result, its time
    nexch            \* exchange_code calls

\* the conversations of agent.py
VARIABLES
    _sessions,       \* session id -> messages and last_active
    minted,          \* session ids made so far
    reply,           \* the last run_agent call: what it was given and what came of it
    ncalls           \* run_agent calls

durable == <<csv, files, db, vec>>
locals == <<op, stage, events, cache, i, attempt, uncached, result, taxonomy, fetched, new_ids>>
history == <<prev2, crashed, nops, ncrash>>
pipeline == <<csv, files, db, vec, _vector_tables, pc, op, stage, events, cache, i, attempt,
              uncached, result, taxonomy, fetched, new_ids, outcome, errAt, run, prev2,
              crashed, nops, ncrash>>
bot == <<update_queue, handlers, users, nupd>>
targets == <<dirs, _vector_table_dirs, syncs, last, nsyncs>>
\* what the pipeline of one target never touches
builder == <<timed_events, enrichments, cursor, built, table, build>>
time == <<clock, nticks>>
oauth == <<_oauth_pending, issued, redeemed, exchanged, nexch>>
agent == <<_sessions, minted, reply, ncalls>>
surroundings == <<bot, targets, builder, time, oauth, agent>>
vars == <<pipeline, surroundings>>

\* the registered users; each has a data directory of their own (one target)
Users == {"u1", "u2"}

\* the updates that start a write to a target: /sync, /process, a calendar export
Commands == {"sync", "process", "document"}

\* a user after /register: no CSV yet
Registered == [status |-> "registered", has_csv |-> FALSE]

\* the stores of one data directory after its bootstrap, by the identifiers
\* they hold: calendar.db and the taxonomy exist, no record yet
Stores == {"csv", "discovery", "enrichment", "db", "vec"}
Bootstrapped == [st \in Stores |-> {}]

\* no _sync_events runs on the directory
NoSync == [pc |-> "idle", new_ids |-> {}]

NoResult == [kind |-> "none"]
NoPrev == [valid |-> FALSE, events |-> <<>>, cache |-> EmptyMap]
NoCrash == [valid |-> FALSE, stage |-> "none", events |-> <<>>, done |-> {}]

\* the observations kept of one operation
NewRun ==
    [calls |-> 0,               \* requests of the running pass
     batchCalls |-> 0,          \* requests made for the batch in flight
     lastKind |-> "none",       \* the kind of the last response
     loaded |-> EmptyMap,       \* the cache as the running pass loaded it
     done |-> {},               \* identifiers of the batches the pass has persisted
     degraded |-> {},           \* identifiers whose enrichment batch used up its attempts
     materialized |-> FALSE,    \* the relational write of this operation was committed
     ranEnrichment |-> FALSE,   \* the enrichment pass was entered
     consCalls |-> 0,           \* consolidation requests
     consFailed |-> FALSE,      \* the consolidation response did not parse
     found |-> {},              \* new_ids of this incremental sync
     pending |-> {},            \* new_ids of the earlier incremental syncs that failed
     bootstrapped |-> FALSE,    \* a _first_time_sync of this target has returned
     replaced |-> {},           \* identifiers stored when this rebuild removed calendar.db
     hadHandle |-> FALSE]       \* the vector handle was cached when the operation started

\* the observations an operation starts with: what the failed syncs before it
\* had found is kept, and so is the fact that the target was bootstrapped
StartRun ==
    [NewRun EXCEPT !.pending = IF outcome = "error" THEN run.pending \cup run.found
                                ELSE run.pending,
                   !.bootstrapped = run.bootstrapped,
                   !.hadHandle = _vector_tables]

\* no exchange_code call yet
NoExchange == [state |-> [parts |-> 0, user_id_str |-> "", nonce |-> ""], result |-> "none", at |-> 0]

\* no run_agent call yet
NoReply ==
    [given |-> 0, used |-> 0, session_id |-> 0, raised |-> FALSE, was |-> "none",
     model_calls |-> 0, end |-> "none"]

\* the state after construction of the pipeline, the bot and the directories
Constructed ==
    /\ csv = NoCsv
    /\ files = [p \in Paths |-> AbsentFile]
    /\ db = NoDb
    /\ vec = NoTable
    /\ _vector_tables = FALSE
    /\ pc = "idle"
    /\ op = "none"
    /\ stage = "none"
    /\ events = <<>>
    /\ cache = EmptyMap
    /\ i = 0
    /\ attempt = 0
    /\ uncached = <<>>
    /\ result = NoResult
    /\ taxonomy = NoTaxonomy
    /\ fetched = <<>>
    /\ new_ids = {}
    /\ outcome = "none"
    /\ errAt = "none"
    /\ run = NewRun
    /\ prev2 = NoPrev
    /\ crashed = NoCrash
    /\ nops = 0
    /\ ncrash = 0
    /\ update_queue = <<>>
    /\ handlers = {}
    /\ users = [u \in Users |-> Registered]
    /\ nupd = 0
    /\ dirs = [u \in Users |-> Bootstrapped]
    /\ _vector_table_dirs = {}
    /\ syncs = [u \in Users |-> NoSync]
    /\ last = "none"
    /\ nsyncs = 0
    /\ clock = 0
    /\ nticks = 0
    /\ _oauth_pending = EmptyMap
    /\ issued = EmptyMap
    /\ redeemed = <<>>
    /\ exchanged = NoExchange
    /\ nexch = 0
    /\ _sessions = EmptyMap
    /\ minted = 0
    /\ reply = NoReply
    /\ ncalls = 0

\* the state after construction: no builder is running
Init ==
    /\ Constructed
    /\ timed_events = <<>>
    /\ enrichments = EmptyMap
    /\ cursor = 0
    /\ built = <<>>
    /\ table = <<>>
    /\ build = "idle"

\* the locals of an operation that has ended
ResetLocals ==
    /\ op' = "none"
    /\ stage' = "none"
    /\ events' = <<>>
    /\ cache' = EmptyMap
    /\ i' = 0
    /\ attempt' = 0
    /\ uncached' = <<>>
    /\ result' = NoResult
    /\ taxonomy' = NoTaxonomy
    /\ fetched' = <<>>
    /\ new_ids' = {}

\* an exception leaves the operation
Raise(at) ==
    /\ pc' = "idle"
    /\ outcome' = "error"
    /\ errAt' = at
    /\ ResetLocals

\* the operation returns its message
Return(msg) ==
    /\ pc' = "idle"
    /\ outcome' = msg
    /\ errAt' = "none"
    /\ ResetLocals

----------------------------------------------------------------------------
(* Starting an operation *)

\* cmd_process -> run_etl: read the CSV and enter the discovery pass
StartProcess ==
    /\ pc = "idle"
    /\ nops < MaxOps
    /\ csv.exists
    /\ nops' = nops + 1
    /\ op' = "etl"
    /\ events' = csv.rows
    /\ stage' = "discovery"
    /\ pc' = "load"
    /\ outcome' = "running"
    /\ errAt' = "none"
    /\ run' = StartRun
    /\ UNCHANGED <<durable, _vector_tables, cache, i, attempt, uncached, result, taxonomy,
                   fetched, new_ids, prev2, crashed, ncrash>>
    /\ UNCHANGED surroundings

\* handle_document: parse_upload and events_to_csv overwrite the log with the
\* events of the uploaded export
Upload ==
    /\ pc = "idle"
    /\ nops < MaxOps
    /\ \E u \in Uploads : csv' = [exists |-> TRUE, rows |-> _raw_to_dicts(u)]
    /\ nops' = nops + 1
    /\ outcome' = "uploaded"
    /\ errAt' = "none"
    /\ run' = StartRun
    /\ UNCHANGED <<files, db, vec, _vector_tables, pc, locals, prev2, crashed, ncrash>>
    /\ UNCHANGED surroundings

\* is_first_time = not os.path.exists(db_file), with a variant that never
\* finds the file
AlwaysFirstTime(d) == TRUE

is_first_time(d) == ~d.exists

\* sync_calendar_oauth: choose the path by the existence of calendar.db, fetch
\* the window, return at once when it is empty; at most max operations start
sync_calendar_oauth(max) ==
    /\ pc = "idle"
    /\ nops < max
    /\ \E w \in Windows :
        /\ nops' = nops + 1
        /\ run' = StartRun
        /\ IF w = <<>>
           THEN /\ Return("no_events")
           ELSE /\ op' = IF is_first_time(db) THEN "bootstrap" ELSE "sync"
                /\ pc' = IF is_first_time(db) THEN "export_csv" ELSE "sync_diff"
                /\ fetched' = _raw_to_dicts(w)
                /\ outcome' = "running"
                /\ errAt' = "none"
                /\ UNCHANGED <<stage, events, cache, i, attempt, uncached, result, taxonomy,
                               new_ids>>
    /\ UNCHANGED <<durable, _vector_tables, prev2, crashed, ncrash>>
    /\ UNCHANGED surroundings

\* /sync of a target that also takes uploads and /process
StartSync == sync_calendar_oauth(MaxOps)

\* /sync of a target that is driven by /sync alone
StartSyncOnly == sync_calendar_oauth(MaxSyncs)

\* _first_time_sync: export_to_csv overwrites the log, run_etl reads it back
ExportCsv ==
    /\ pc = "export_csv"
    /\ csv' = [exists |-> TRUE, rows |-> fetched]
    /\ events' = fetched
    /\ stage' = "discovery"
    /\ pc' = "load"
    /\ UNCHANGED <<files, db, vec, _vector_tables, op, cache, i, attempt, uncached, result,
                   taxonomy, fetched, new_ids, outcome, errAt, run, history>>
    /\ UNCHANGED surroundings

----------------------------------------------------------------------------
(* run_pass1_discovery and run_pass2_enrichment *)

\* cache = load_cache(...); in the enrichment pass build_enrichment_prompt
\* reads taxonomy["categories"]
PassLoad ==
    /\ pc = "load"
    /\ LET file == files[CachePath(stage)] IN
       IF file.st = "partial"
       THEN Raise("load_cache") /\ UNCHANGED run
       ELSE IF stage = "enrichment" /\ ~taxonomy.well_formed
       THEN Raise("build_enrichment_prompt") /\ UNCHANGED run
       ELSE /\ cache' = load_cache(file)
            /\ i' = 1
            /\ pc' = "batch"
            /\ run' = [run EXCEPT !.calls = 0, !.batchCalls = 0, !.done = {},
                                  !.loaded = load_cache(file),
                                  !.ranEnrichment = @ \/ stage = "enrichment"]
            /\ UNCHANGED <<op, stage, events, attempt, uncached, result, taxonomy, fetched,
                           new_ids, outcome, errAt>>
    /\ UNCHANGED <<durable, _vector_tables, history>>
    /\ UNCHANGED surroundings

\* one turn of the batch loop: skip a batch that is cached, else dispatch its
\* uncached records
PassBatch ==
    /\ pc = "batch"
    /\ i <= Len(events)
    /\ LET unc == Uncached(Batch(events, i, BatchSize(stage)), cache) IN
       IF unc = <<>>
       THEN /\ i' = i + BatchSize(stage)
            /\ UNCHANGED <<pc, attempt, uncached, run>>
       ELSE /\ uncached' = unc
            /\ attempt' = 0
            /\ pc' = "call"
            /\ run' = [run EXCEPT !.batchCalls = 0]
            /\ UNCHANGED i
    /\ UNCHANGED <<durable, _vector_tables, op, stage, events, cache, result, taxonomy,
                   fetched, new_ids, outcome, errAt, history>>
    /\ UNCHANGED surroundings

\* the pass returns its cache to the caller: main/run_etl or _sync_events
PassReturn ==
    /\ pc = "batch"
    /\ i > Len(events)
    /\ IF stage = "discovery"
       THEN /\ stage' = IF op = "sync" THEN "enrichment" ELSE "discovery"
            /\ pc' = IF op = "sync" THEN "load" ELSE "taxonomy"
            /\ UNCHANGED prev2
       ELSE /\ pc' = IF op = "sync" THEN "upsert_events" ELSE "db_remove"
            /\ prev2' = [valid |-> TRUE, events |-> events, cache |-> cache]
            /\ UNCHANGED stage
    /\ i' = 0
    /\ run' = [run EXCEPT !.calls = 0, !.loaded = EmptyMap, !.done = {}]
    /\ crashed' = IF crashed.valid /\ crashed.stage = stage /\ crashed.events = events
                  THEN NoCrash ELSE crashed
    /\ UNCHANGED <<durable, _vector_tables, op, events, cache, attempt, uncached, result,
                   taxonomy, fetched, new_ids, outcome, errAt, nops, ncrash>>
    /\ UNCHANGED surroundings

\* one request of run_discovery_batch and what the loop does with the answer
DiscoveryCall ==
    /\ pc = "call"
    /\ stage = "discovery"
    /\ \E resp \in DiscoveryResponses(SeqIds(uncached)) :
        /\ run' = [run EXCEPT !.calls = @ + 1, !.batchCalls = @ + 1, !.lastKind = resp.kind]
        /\ IF resp.kind = "fail"
           THEN IF MayRetry(attempt)
                THEN /\ attempt' = attempt + 1
                     /\ UNCHANGED <<pc, result>>
                ELSE /\ result' = [kind |-> "dict", map |-> DiscoveryDegraded(uncached)]
                     /\ pc' = "update"
                     /\ attempt' = 0
           ELSE /\ result' = resp
                /\ pc' = "update"
                /\ attempt' = 0
    /\ UNCHANGED <<durable, _vector_tables, op, stage, events, cache, i, uncached, taxonomy,
                   fetched, new_ids, outcome, errAt, history>>
    /\ UNCHANGED surroundings

\* one request of run_enrichment_batch and what the loop does with the answer
EnrichmentCall ==
    /\ pc = "call"
    /\ stage = "enrichment"
    /\ \E resp \in EnrichmentResponses(SeqIds(uncached)) :
        IF resp.kind \in {"fail", "notlist"}
        THEN IF MayRetry(attempt)
             THEN /\ attempt' = attempt + 1
                  /\ run' = [run EXCEPT !.calls = @ + 1, !.batchCalls = @ + 1,
                                        !.lastKind = resp.kind]
                  /\ UNCHANGED <<pc, result>>
             ELSE /\ result' = [kind |-> "list", items |-> EnrichmentDegraded(uncached)]
                  /\ pc' = "update"
                  /\ run' = [run EXCEPT !.calls = @ + 1, !.batchCalls = @ + 1,
                                        !.lastKind = resp.kind,
                                        !.degraded = @ \cup SeqIds(uncached)]
                  /\ attempt' = 0
        ELSE /\ result' = resp
             /\ pc' = "update"
             /\ run' = [run EXCEPT !.calls = @ + 1, !.batchCalls = @ + 1,
                                   !.lastKind = resp.kind]
             /\ attempt' = 0
    /\ UNCHANGED <<durable, _vector_tables, op, stage, events, cache, i, uncached, taxonomy,
                   fetched, new_ids, outcome, errAt, history>>
    /\ UNCHANGED surroundings

\* cache.update(result) of the discovery pass; the result-mapping loop of the
\* enrichment pass
PassUpdate ==
    /\ pc = "update"
    /\ IF stage = "discovery" /\ result.kind = "notdict"
       THEN Raise("discovery_update")
       ELSE IF stage = "enrichment" /\ result.kind = "nonobject"
       THEN Raise("enrichment_map")
       ELSE /\ cache' = IF stage = "discovery" THEN CacheUpdate(cache, result.map)
                        ELSE MapResults(cache, result.items)
            /\ result' = NoResult
            /\ pc' = "save_open"
            /\ UNCHANGED <<op, stage, events, i, attempt, uncached, taxonomy,
                           fetched, new_ids, outcome, errAt>>
    /\ run' = [run EXCEPT !.batchCalls = 0, !.lastKind = "none"]
    /\ UNCHANGED <<durable, _vector_tables, history>>
    /\ UNCHANGED surroundings

----------------------------------------------------------------------------
(* save_cache *)

\* what the caller hands to save_cache
SaveData == IF stage = "taxonomy" THEN taxonomy ELSE cache

\* open(tmp, "w")
SaveOpen ==
    /\ pc = "save_open"
    /\ files' = [files EXCEPT ![TmpPath(CachePath(stage))] = PartialFile]
    /\ pc' = "save_write"
    /\ UNCHANGED <<csv, db, vec, _vector_tables, locals, outcome, errAt, run, history>>
    /\ UNCHANGED surroundings

\* json.dump(data, f) and the close of the file
SaveWrite ==
    /\ pc = "save_write"
    /\ files' = [files EXCEPT ![TmpPath(CachePath(stage))] = FullFile(SaveData)]
    /\ pc' = "save_replace"
    /\ UNCHANGED <<csv, db, vec, _vector_tables, locals, outcome, errAt, run, history>>
    /\ UNCHANGED surroundings

\* os.replace(tmp, path), then back in the caller
SaveReplace ==
    /\ pc = "save_replace"
    /\ LET path == CachePath(stage) IN
       files' = [[files EXCEPT ![TmpPath(path)] = AbsentFile]
                    EXCEPT ![path] = files[TmpPath(path)]]
    /\ IF stage = "taxonomy"
       THEN /\ pc' = "consolidated"
            /\ UNCHANGED <<i, run>>
       ELSE /\ pc' = "batch"
            /\ i' = i + BatchSize(stage)
            /\ run' = [run EXCEPT !.done = @ \cup SeqIds(uncached)]
    /\ uncached' = <<>>
    /\ prev2' = IF stage = "enrichment" /\ prev2.cache # cache THEN NoPrev ELSE prev2
    /\ UNCHANGED <<csv, db, vec, _vector_tables, op, stage, events, cache, attempt,
                   result, taxonomy, fetched, new_ids, outcome, errAt, crashed, nops, ncrash>>
    /\ UNCHANGED surroundings

----------------------------------------------------------------------------
(* The taxonomy step of main / run_etl *)

\* a gate that never finds the artifact
NeverExists(file) == FALSE

\* os.path.exists(TAXONOMY_FILE)
TaxonomyExists(file) == file.st # "absent"

\* if os.path.exists(TAXONOMY_FILE): load it and list its categories
\* else: consolidate_taxonomy
TaxonomyStep ==
    /\ pc = "taxonomy"
    /\ LET file == files[TAXONOMY_FILE] IN
       IF ~TaxonomyExists(file)
       THEN /\ pc' = "consolidate"
            /\ UNCHANGED <<op, stage, events, cache, i, attempt, uncached, result, taxonomy,
                           fetched, new_ids, outcome, errAt>>
       ELSE IF file.st = "partial"
       THEN Raise("taxonomy_load")
       ELSE IF ~file.data.well_formed
       THEN Raise("taxonomy_shape")
       ELSE /\ taxonomy' = file.data
            /\ stage' = "enrichment"
            /\ pc' = "load"
            /\ UNCHANGED <<op, events, cache, i, attempt, uncached, result, fetched, new_ids,
                           outcome, errAt>>
    /\ UNCHANGED <<durable, _vector_tables, run, history>>
    /\ UNCHANGED surroundings

\* a consolidation that swallows the parse error
NeverRaises(resp) == FALSE

\* json.loads(text) of consolidate_taxonomy raises on this answer
ConsolidationRaises(resp) == resp.kind = "fail"

\* consolidate_taxonomy up to its save_cache: the one request and json.loads
Consolidate ==
    /\ pc = "consolidate"
    /\ \E resp \in ConsolidationResponses :
        /\ run' = [run EXCEPT !.consCalls = @ + 1,
                              !.consFailed = @ \/ resp.kind = "fail"]
        /\ IF ConsolidationRaises(resp)
           THEN Raise("consolidate")
           ELSE /\ taxonomy' = resp.value
                /\ stage' = "taxonomy"
                /\ pc' = "save_open"
                /\ UNCHANGED <<op, events, cache, i, attempt, uncached, result, fetched,
                               new_ids, outcome, errAt>>
    /\ UNCHANGED <<durable, _vector_tables, history>>
    /\ UNCHANGED surroundings

\* consolidate_taxonomy after its save_cache: it reads taxonomy["categories"]
Consolidated ==
    /\ pc = "consolidated"
    /\ IF ~taxonomy.well_formed
       THEN Raise("consolidate_shape")
       ELSE /\ stage' = "enrichment"
            /\ pc' = "load"
            /\ UNCHANGED <<op, events, cache, i, attempt, uncached, result, taxonomy,
                           fetched, new_ids, outcome, errAt>>
    /\ UNCHANGED <<durable, _vector_tables, run, history>>
    /\ UNCHANGED surroundings

----------------------------------------------------------------------------
(* Full materialization: create_database and create_vector_store *)

\* if os.path.exists(DB_FILE): os.remove(DB_FILE)
DbRemove ==
    /\ pc = "db_remove"
    /\ db' = NoDb
    /\ pc' = "db_connect"
    /\ run' = [run EXCEPT !.replaced = DOMAIN db.events]
    /\ UNCHANGED <<csv, files, vec, _vector_tables, locals, outcome, errAt, history>>
    /\ UNCHANGED surroundings

\* sqlite3.connect(DB_FILE) creates the file
DbConnect ==
    /\ pc = "db_connect"
    /\ db' = [NoDb EXCEPT !.exists = TRUE]
    /\ pc' = "db_tables"
    /\ UNCHANGED <<csv, files, vec, _vector_tables, locals, outcome, errAt, run, history>>
    /\ UNCHANGED surroundings

\* one CREATE TABLE; each is committed on its own
DbCreateTable ==
    /\ pc = "db_tables"
    /\ db' = [db EXCEPT !.tables = @ + 1]
    /\ pc' = IF db.tables + 1 = 3 THEN "db_load" ELSE "db_tables"
    /\ UNCHANGED <<csv, files, vec, _vector_tables, locals, outcome, errAt, run, history>>
    /\ UNCHANGED surroundings

\* the insert loop, the indexes and conn.commit()
DbLoad ==
    /\ pc = "db_load"
    /\ db' = create_database(db, events, cache)
    /\ run' = [run EXCEPT !.materialized = TRUE]
    /\ pc' = "vec_embed"
    /\ UNCHANGED <<csv, files, vec, _vector_tables, locals, outcome, errAt, history>>
    /\ UNCHANGED surroundings

\* create_vector_store: build the records and embed them; the embedding
\* service may raise
VecEmbed ==
    /\ pc = "vec_embed"
    /\ \E ok \in BOOLEAN :
        IF ok
        THEN /\ pc' = "vec_drop"
             /\ UNCHANGED <<locals, outcome, errAt>>
        ELSE Raise("embed")
    /\ UNCHANGED <<durable, _vector_tables, run, history>>
    /\ UNCHANGED surroundings

\* a drop_table that leaves the table as it is
KeepTable(v) == v

\* if "sub_activities" in existing_tables: db.drop_table("sub_activities")
drop_table(v) == NoTable

\* the table of an earlier build is dropped
VecDrop ==
    /\ pc = "vec_drop"
    /\ vec' = drop_table(vec)
    /\ pc' = "vec_create"
    /\ UNCHANGED <<csv, files, db, _vector_tables, locals, outcome, errAt, run, history>>
    /\ UNCHANGED surroundings

\* db.create_table("sub_activities", records) and the summary print, which
\* reads all_vectors[0]: with no record the function raises, with or without
\* the table
VecCreate ==
    /\ pc = "vec_create"
    /\ LET records == BuildRecords(events, cache, SeqIds(events)) IN
       IF records = <<>>
       THEN /\ \E created \in BOOLEAN :
                vec' = IF created THEN [exists |-> TRUE, rows |-> <<>>] ELSE vec
            /\ Raise("create_table")
            /\ UNCHANGED run
       ELSE /\ vec' = [exists |-> TRUE, rows |-> records]
            /\ Return("ok")
            /\ run' = [run EXCEPT !.bootstrapped = @ \/ op = "bootstrap"]
    /\ UNCHANGED <<csv, files, db, _vector_tables, history>>
    /\ UNCHANGED surroundings

----------------------------------------------------------------------------
(* _sync_events *)

\* read the stored identifiers, compute the new records, return when there
\* is none
SyncDiff ==
    /\ pc = "sync_diff"
    /\ IF db.tables < 1
       THEN Raise("select_events")
       ELSE LET new == NewEvents(fetched, ExistingIds(db)) IN
            IF new = <<>>
            THEN Return("up_to_date")
            ELSE /\ events' = new
                 /\ new_ids' = SeqIds(new)
                 /\ pc' = "csv_append"
                 /\ UNCHANGED <<op, stage, cache, i, attempt, uncached, result, taxonomy,
                                fetched, outcome, errAt>>
    /\ run' = [run EXCEPT !.found = IF db.tables < 1 THEN {}
                                    ELSE SeqIds(NewEvents(fetched, ExistingIds(db)))]
    /\ UNCHANGED <<durable, _vector_tables, history>>
    /\ UNCHANGED surroundings

\* append the new records to the CSV
CsvAppend ==
    /\ pc = "csv_append"
    /\ csv' = [exists |-> TRUE, rows |-> csv.rows \o events]
    /\ pc' = "sync_taxonomy"
    /\ UNCHANGED <<files, db, vec, _vector_tables, locals, outcome, errAt, run, history>>
    /\ UNCHANGED surroundings

\* with open(taxonomy_file) as f: taxonomy = json.load(f), then the
\* discovery pass is entered
SyncTaxonomy ==
    /\ pc = "sync_taxonomy"
    /\ LET file == files[TAXONOMY_FILE] IN
       IF file.st # "full"
       THEN Raise("taxonomy_open")
       ELSE /\ taxonomy' = file.data
            /\ stage' = "discovery"
            /\ pc' = "load"
            /\ UNCHANGED <<op, events, cache, i, attempt, uncached, result, fetched, new_ids,
                           outcome, errAt>>
    /\ UNCHANGED <<durable, _vector_tables, run, history>>
    /\ UNCHANGED surroundings

\* upsert_events: the insert loop and conn.commit(); a missing table raises
\* before the commit
UpsertEvents ==
    /\ pc = "upsert_events"
    /\ IF db.tables < 3
       THEN /\ Raise("upsert_events")
            /\ UNCHANGED <<db, run>>
       ELSE /\ db' = upsert_events(db, events, cache, new_ids)
            /\ run' = [run EXCEPT !.materialized = TRUE]
            /\ pc' = "upsert_vectors"
            /\ UNCHANGED <<locals, outcome, errAt>>
    /\ UNCHANGED <<csv, files, vec, _vector_tables, history>>
    /\ UNCHANGED surroundings

\* upsert_vectors: build the records, return 0 when there is none, else embed
\* them; the embedding service may raise
UpsertVectors ==
    /\ pc = "upsert_vectors"
    /\ IF BuildRecords(events, cache, new_ids) = <<>>
       THEN /\ pc' = "invalidate"
            /\ UNCHANGED <<locals, outcome, errAt>>
       ELSE \E ok \in BOOLEAN :
                IF ok
                THEN /\ pc' = "vec_add"
                     /\ UNCHANGED <<locals, outcome, errAt>>
                ELSE Raise("embed")
    /\ UNCHANGED <<durable, _vector_tables, run, history>>
    /\ UNCHANGED surroundings

\* table = db.open_table("sub_activities"); table.add(records)
VecAdd ==
    /\ pc = "vec_add"
    /\ IF ~vec.exists
       THEN /\ Raise("open_table")
            /\ UNCHANGED vec
       ELSE /\ vec' = [vec EXCEPT !.rows = @ \o BuildRecords(events, cache, new_ids)]
            /\ pc' = "invalidate"
            /\ UNCHANGED <<locals, outcome, errAt>>
    /\ UNCHANGED <<csv, files, db, _vector_tables, run, history>>
    /\ UNCHANGED surroundings

\* an invalidation that leaves the handle where it is
KeepHandle(handle) == handle

\* _vector_tables.pop(vdir, None): the handle of the directory is forgotten
pop(handle) == FALSE

\* invalidate_vector_cache(data_dir), then the summary is returned
Invalidate ==
    /\ pc = "invalidate"
    /\ _vector_tables' = pop(_vector_tables)
    /\ Return("ok")
    /\ UNCHANGED <<durable, run, history>>
    /\ UNCHANGED surroundings

----------------------------------------------------------------------------
(* The reader and the environment *)

\* db._get_vector_table, called by a query between two operations: open the
\* table once and keep the handle
_get_vector_table ==
    /\ pc = "idle"
    /\ ~_vector_tables
    /\ vec.exists
    /\ _vector_tables' = TRUE
    /\ UNCHANGED <<durable, pc, locals, outcome, errAt, run, history>>
    /\ UNCHANGED surroundings

\* the process is killed while an operation runs; files stay as they are
Crash ==
    /\ pc # "idle"
    /\ ncrash < MaxCrashes
    /\ ncrash' = ncrash + 1
    /\ pc' = "idle"
    /\ outcome' = "crashed"
    /\ errAt' = "none"
    /\ ResetLocals
    /\ _vector_tables' = FALSE
    /\ crashed' = IF run.done # {}
                  THEN [valid |-> TRUE, stage |-> stage, events |-> events, done |-> run.done]
                  ELSE crashed
    /\ run' = [NewRun EXCEPT !.pending = run.pending \cup run.found,
                            !.bootstrapped = run.bootstrapped]
    /\ UNCHANGED <<durable, prev2, nops>>
    /\ UNCHANGED surroundings

Next ==
    \/ Upload
    \/ StartProcess
    \/ StartSync
    \/ ExportCsv
    \/ PassLoad
    \/ PassBatch
    \/ PassReturn
    \/ DiscoveryCall
    \/ EnrichmentCall
    \/ PassUpdate
    \/ SaveOpen
    \/ SaveWrite
    \/ SaveReplace
    \/ TaxonomyStep
    \/ Consolidate
    \/ Consolidated
    \/ DbRemove
    \/ DbConnect
    \/ DbCreateTable
    \/ DbLoad
    \/ VecEmbed
    \/ VecDrop
    \/ VecCreate
    \/ SyncDiff
    \/ CsvAppend
    \/ SyncTaxonomy
    \/ UpsertEvents
    \/ UpsertVectors
    \/ VecAdd
    \/ Invalidate
    \/ _get_vector_table

\* the operations, each running to its return or to its exception
Spec == Init /\ [][Next]_vars

\* the same, with the process killed at any point of an operation
NextCrash == Next \/ Crash
SpecCrash == Init /\ [][NextCrash]_vars

\* a target that is driven by /sync alone: the bootstrap and the incremental
\* syncs after it
NextSync ==
    \/ StartSyncOnly
    \/ ExportCsv
    \/ PassLoad
    \/ PassBatch
    \/ PassReturn
    \/ DiscoveryCall
    \/ EnrichmentCall
    \/ PassUpdate
    \/ SaveOpen
    \/ SaveWrite
    \/ SaveReplace
    \/ TaxonomyStep
    \/ Consolidate
    \/ Consolidated
    \/ DbRemove
    \/ DbConnect
    \/ DbCreateTable
    \/ DbLoad
    \/ VecEmbed
    \/ VecDrop
    \/ VecCreate
    \/ SyncDiff
    \/ CsvAppend
    \/ SyncTaxonomy
    \/ UpsertEvents
    \/ UpsertVectors
    \/ VecAdd
    \/ Invalidate
    \/ _get_vector_table
SpecSync == Init /\ [][NextSync]_vars

\* the process is killed inside save_cache: before the open of the temporary
\* file, between the open and the end of the write, or before the rename
CrashInSave == pc \in {"save_open", "save_write", "save_replace"} /\ Crash

\* the operations, with the process killed inside save_cache only
NextSaveCrash == Next \/ CrashInSave
SpecSaveCrash == Init /\ [][NextSaveCrash]_vars

----------------------------------------------------------------------------
(* The bot: how the operations of the targets are started *)

\* everything but the bot
outside_bot == <<pipeline, targets, builder, time, oauth, agent>>

\* an application built with every update handled in a task of its own
AllUpdatesConcurrent == TRUE

\* ApplicationBuilder().token(...).build(): concurrent_updates is not asked
\* for, so the application handles its updates one by one
concurrent_updates == FALSE

\* polling receives an update and puts it in the queue, whatever is running
post_update ==
    /\ nupd < MaxUpdates
    /\ \E c \in Commands, u \in Users :
           update_queue' = Append(update_queue, [cmd |-> c, user |-> u])
    /\ nupd' = nupd + 1
    /\ UNCHANGED <<handlers, users, outside_bot>>

\* the application takes the next update and calls its handler; without
\* concurrent updates it awaits the handler before it takes another one
_update_fetcher ==
    /\ update_queue # <<>>
    /\ concurrent_updates \/ handlers = {}
    /\ handlers' = handlers \cup {[n |-> nupd - Len(update_queue),
                                   cmd |-> Head(update_queue).cmd,
                                   user |-> Head(update_queue).user,
                                   at |-> "start"]}
    /\ update_queue' = Tail(update_queue)
    /\ UNCHANGED <<users, nupd, outside_bot>>

\* the handler h, moved to the executor
InExecutor(h) == (handlers \ {h}) \cup {[h EXCEPT !.at = "executor"]}

\* cmd_sync up to run_in_executor: without stored credentials it only sends
\* the authorization link
cmd_sync ==
    \E h \in handlers :
        /\ h.cmd = "sync" /\ h.at = "start"
        /\ \E creds \in BOOLEAN :
               handlers' = IF creds THEN InExecutor(h) ELSE handlers \ {h}
        /\ UNCHANGED <<update_queue, users, nupd, outside_bot>>

\* sync_calendar_oauth has returned or raised in the executor
cmd_sync_done ==
    \E h \in handlers :
        /\ h.cmd = "sync" /\ h.at = "executor"
        /\ \E ok \in BOOLEAN :
               users' = IF ok
                        THEN [users EXCEPT ![h.user] = [status |-> "ready", has_csv |-> TRUE]]
                        ELSE users
        /\ handlers' = handlers \ {h}
        /\ UNCHANGED <<update_queue, nupd, outside_bot>>

\* cmd_process up to run_in_executor: it needs the CSV and refuses while the
\* status is "processing"; the status is saved before the message that
\* announces the run is sent, and if sending it raises the handler ends
\* before the try block that runs the pipeline
cmd_process ==
    \E h \in handlers :
        /\ h.cmd = "process" /\ h.at = "start"
        /\ IF ~users[h.user].has_csv \/ users[h.user].status = "processing"
           THEN /\ handlers' = handlers \ {h}
                /\ UNCHANGED users
           ELSE /\ \E sent \in BOOLEAN :
                       handlers' = IF sent THEN InExecutor(h) ELSE handlers \ {h}
                /\ users' = [users EXCEPT ![h.user].status = "processing"]
        /\ UNCHANGED <<update_queue, nupd, outside_bot>>

\* a handler whose except branch leaves the status as it is
StatusLeftOnFailure(ok) == IF ok THEN "ready" ELSE "processing"

\* the status cmd_process saves when run_etl has returned (ok) or raised
status_after_run(ok) == IF ok THEN "ready" ELSE "error"

\* run_etl has returned or raised in the executor
cmd_process_done ==
    \E h \in handlers :
        /\ h.cmd = "process" /\ h.at = "executor"
        /\ \E ok \in BOOLEAN :
               users' = [users EXCEPT ![h.user].status = status_after_run(ok)]
        /\ handlers' = handlers \ {h}
        /\ UNCHANGED <<update_queue, nupd, outside_bot>>

\* handle_document: an export that parses to events overwrites the CSV
handle_document ==
    \E h \in handlers :
        /\ h.cmd = "document" /\ h.at = "start"
        /\ \E parsed \in BOOLEAN :
               users' = IF parsed
                        THEN [users EXCEPT ![h.user] =
                                  [status |-> "data_uploaded", has_csv |-> TRUE]]
                        ELSE users
        /\ handlers' = handlers \ {h}
        /\ UNCHANGED <<update_queue, nupd, outside_bot>>

NextBot ==
    \/ post_update
    \/ _update_fetcher
    \/ cmd_sync
    \/ cmd_sync_done
    \/ cmd_process
    \/ cmd_process_done
    \/ handle_document

\* the bot with the operations as executor jobs
SpecBot == Init /\ [][NextBot]_vars

----------------------------------------------------------------------------
(* Several targets: _sync_events of one data directory next to another's *)

\* everything but the data directories
outside_targets == <<pipeline, bot, builder, time, oauth, agent>>

\* the steps of _sync_events after the diff, in the order of sync.py:86-103
SyncSteps == <<"csv", "discovery", "enrichment", "db", "vec", "invalidate">>

\* the step after the k-th
AfterStep(k) == IF k = Len(SyncSteps) THEN "idle" ELSE SyncSteps[k + 1]

\* an invalidation that empties the whole handle cache
ClearAll(tables, u) == {}

\* invalidate_vector_cache(data_dir): _vector_tables.pop(vdir, None)
invalidate_vector_cache(tables, u) == tables \ {u}

\* _sync_events(raw_events, data_dir) up to the diff: the new identifiers are
\* those that calendar.db of data_dir lacks
sync_events_diff ==
    \E u \in Users, w \in SUBSET Ids :
        /\ nsyncs < MaxDirSyncs
        /\ syncs[u].pc = "idle"
        /\ w # {}
        /\ nsyncs' = nsyncs + 1
        /\ syncs' = [syncs EXCEPT ![u] = IF w \subseteq dirs[u].db THEN NoSync
                                         ELSE [pc |-> "csv", new_ids |-> w \ dirs[u].db]]
        /\ last' = u
        /\ UNCHANGED <<dirs, _vector_table_dirs, outside_targets>>

\* the new records are appended to calendar_raw_full.csv of data_dir
sync_events_csv ==
    \E u \in Users :
        /\ syncs[u].pc = "csv"
        /\ dirs' = [dirs EXCEPT ![u].csv = @ \cup syncs[u].new_ids]
        /\ syncs' = [syncs EXCEPT ![u].pc = AfterStep(1)]
        /\ last' = u
        /\ UNCHANGED <<_vector_table_dirs, nsyncs, outside_targets>>

\* one of the calls into etl.py with data_dir=data_dir: the two passes write
\* their caches, upsert_events and upsert_vectors their stores, each under the
\* directory it was handed
sync_events_etl ==
    \E u \in Users, k \in 2..5 :
        /\ syncs[u].pc = SyncSteps[k]
        /\ dirs' = [dirs EXCEPT ![u][SyncSteps[k]] = @ \cup syncs[u].new_ids]
        /\ syncs' = [syncs EXCEPT ![u].pc = AfterStep(k)]
        /\ last' = u
        /\ UNCHANGED <<_vector_table_dirs, nsyncs, outside_targets>>

\* invalidate_vector_cache(data_dir), then _sync_events returns
sync_events_invalidate ==
    \E u \in Users :
        /\ syncs[u].pc = "invalidate"
        /\ _vector_table_dirs' = invalidate_vector_cache(_vector_table_dirs, u)
        /\ syncs' = [syncs EXCEPT ![u] = NoSync]
        /\ last' = u
        /\ UNCHANGED <<dirs, nsyncs, outside_targets>>

\* a step of _sync_events raises: what was written stays
sync_events_raises ==
    \E u \in Users :
        /\ syncs[u].pc \notin {"idle", "invalidate"}
        /\ syncs' = [syncs EXCEPT ![u] = NoSync]
        /\ last' = u
        /\ UNCHANGED <<dirs, _vector_table_dirs, nsyncs, outside_targets>>

\* _get_vector_table(data_dir) of a query: open the table of that directory
\* unless its handle is cached
get_vector_table ==
    \E u \in Users :
        /\ u \notin _vector_table_dirs
        /\ _vector_table_dirs' = _vector_table_dirs \cup {u}
        /\ last' = u
        /\ UNCHANGED <<dirs, syncs, nsyncs, outside_targets>>

NextTargets ==
    \/ sync_events_diff
    \/ sync_events_csv
    \/ sync_events_etl
    \/ sync_events_invalidate
    \/ sync_events_raises
    \/ get_vector_table

\* the incremental syncs and the queries of all users, interleaved
SpecTargets == Init /\ [][NextTargets]_vars

----------------------------------------------------------------------------
(* The normalizer and the embedding text: a vector builder over timed records *)

\* what a vector builder never touches
outside_builder == <<pipeline, bot, targets, time, oauth, agent>>

\* Time is counted in hours from 2024-03-09T00:00Z, a Saturday.  The records
\* start and end on a grid of six hours that holds the instant at which the
\* configured zone changes its offset.

\* the offset of YOUR_TIMEZONE (America/Chicago) at an instant: six hours
\* behind UTC until 2024-03-10T08:00Z, five hours behind from then on
utcoffset(t) == IF t < 32 THEN 0 - 6 ELSE 0 - 5

\* start_dt and end_dt of a record: a date, a timestamp, or a value that is
\* missing or does not parse
Date(d) == [kind |-> "date", at |-> d]
DateTime(t) == [kind |-> "datetime", at |-> t]
Unparseable == [kind |-> "bad", at |-> 0]

Dates == {Date(d) : d \in 0..MaxDay}
DateTimes == {DateTime(6 * k + 2) : k \in 1..(4 * (MaxDay + 1))}

\* the start and end of the records the provider or an upload may hold
Spans ==
    (Dates \X Dates) \cup (DateTimes \X DateTimes)
    \cup {<<Unparseable, Date(0)>>, <<Date(0), Unparseable>>,
          <<DateTime(8), Unparseable>>, <<Unparseable, Unparseable>>}

\* the row of a record with its start and end
TimedRecord(id, span) ==
    [event_id |-> id, summary |-> "gym", start_dt |-> span[1], end_dt |-> span[2]]

\* the lists a builder may be handed
Calendars ==
    {<<TimedRecord("a", s)>> : s \in Spans}
    \cup {<<TimedRecord("a", s), TimedRecord("b", t)>> : s \in Spans, t \in Spans}

\* A datetime of the zone is the reading of the zone's clock, in hours from
\* the midnight that starts the Saturday.

\* datetime.strptime(s, "%Y-%m-%d").replace(tzinfo=tz): midnight of that day
\* on the zone's clock
strptime(x) == 24 * x.at

\* datetime.fromisoformat(s).astimezone(tz): the zone's clock at the instant
astimezone(x) == x.at + utcoffset(x.at)

Weekdays == <<"Saturday", "Sunday", "Monday", "Tuesday", "Wednesday", "Thursday", "Friday">>

\* dt.strftime("%A")
strftime_A(dt) == Weekdays[((dt \div 24) % 7) + 1]

\* parse_temporal_fields raises: a ValueError of strptime or fromisoformat, a
\* TypeError on a missing value
Raised ==
    [raised |-> TRUE, date |-> 0, day_of_week |-> "", start_hour |-> 0,
     duration_minutes |-> 0]

\* parse_temporal_fields; dt_end - dt_start of two datetimes that carry the
\* same tzinfo is the difference of their clock readings
parse_temporal_fields(event) ==
    LET start_str == event.start_dt
        end_str == event.end_dt
    IN  IF start_str.kind = "bad" \/ end_str.kind = "bad" THEN Raised
        ELSE LET dt_start == IF start_str.kind = "date" THEN strptime(start_str)
                                                     ELSE astimezone(start_str)
                 dt_end == IF start_str.kind = "date" THEN strptime(end_str)
                                                   ELSE astimezone(end_str)
             IN  [raised |-> FALSE,
                  date |-> dt_start \div 24,
                  day_of_week |-> strftime_A(dt_start),
                  start_hour |-> dt_start % 24,
                  duration_minutes |-> 60 * (dt_end - dt_start)]

RECURSIVE JoinWith(_, _)
\* sep.join(list)
JoinWith(l, sep) ==
    IF l = <<>> THEN ""
    ELSE IF Len(l) = 1 THEN l[1] ELSE l[1] \o sep \o JoinWith(Tail(l), sep)

\* a time band that names the hour
ExactHour(start_hour) == ToString(start_hour)

\* _time_band
_time_band(start_hour) ==
    IF start_hour < 6 THEN "early morning"
    ELSE IF start_hour < 12 THEN "morning"
    ELSE IF start_hour < 17 THEN "afternoon"
    ELSE IF start_hour < 21 THEN "evening"
    ELSE "late night"

\* construct_embedding_text, for the sub-activity at position k (counted from
\* one); the texts of the model are in lower case, so capitalize() acts on the
\* first letter only
construct_embedding_text(activity, k, all_sub_activities, enrichment, temporal) ==
    LET name == IF enrichment.locations # <<>>
                    THEN activity \o " at " \o JoinWith(enrichment.locations, ", ")
                    ELSE activity
        category == IF enrichment.categories # <<>>
                        THEN "(" \o JoinWith(enrichment.categories, "/") \o ")"
                        ELSE ""
        hasBefore == k > 1
        hasAfter == k < Len(all_sub_activities)
        context ==
            IF hasBefore /\ hasAfter
                THEN ". After " \o all_sub_activities[k - 1]
                     \o ", before " \o all_sub_activities[k + 1]
            ELSE IF hasBefore THEN ". After " \o all_sub_activities[k - 1]
            ELSE IF hasAfter THEN ". Before " \o all_sub_activities[k + 1]
            ELSE ""
        is_weekend == temporal.day_of_week \in {"Saturday", "Sunday"}
        time_str == (IF is_weekend THEN "Weekend" ELSE "Weekday") \o " "
                    \o _time_band(temporal.start_hour)
        people == IF enrichment.people # <<>>
                      THEN ", with " \o JoinWith(enrichment.people, ", ")
                      ELSE ", solo"
        flag == IF enrichment.is_wasted_time THEN "unproductive"
                ELSE IF enrichment.is_productive THEN "productive" ELSE ""
        mood == IF enrichment.mood # Null
                    THEN ". Mood: " \o enrichment.mood
                         \o (IF flag # "" THEN ", " \o flag ELSE "") \o "."
                ELSE IF enrichment.is_wasted_time THEN ". Unproductive."
                ELSE IF enrichment.is_productive THEN ". Productive."
                ELSE ""
    IN  name \o category \o context \o ". " \o time_str \o people \o mood

\* the vector records of one record, with the columns the normalizer fills
TimedVectorRecords(event, enrichment, temporal) ==
    [k \in 1..Len(enrichment.sub_activities) |->
        [text |-> construct_embedding_text(enrichment.sub_activities[k], k,
                                           enrichment.sub_activities, enrichment,
                                           temporal),
         event_id |-> event.event_id,
         activity |-> enrichment.sub_activities[k],
         date |-> temporal.date,
         day_of_week |-> temporal.day_of_week,
         start_hour |-> temporal.start_hour,
         duration_minutes |-> temporal.duration_minutes]]

\* the body of the record loop of create_vector_store and of upsert_vectors,
\* for a record the normalizer accepts
build_record ==
    /\ build = "loop"
    /\ cursor < Len(timed_events)
    /\ LET event == timed_events[cursor + 1]
           temporal == parse_temporal_fields(event)
       IN  /\ ~temporal.raised
           /\ built' = built \o TimedVectorRecords(event, Enrichment(enrichments, event),
                                                  temporal)
    /\ cursor' = cursor + 1
    /\ UNCHANGED <<timed_events, enrichments, table, build>>
    /\ UNCHANGED outside_builder

\* parse_temporal_fields raises in the loop: nothing around the call catches,
\* and the builder is left before anything is written
build_raises ==
    /\ build = "loop"
    /\ cursor < Len(timed_events)
    /\ parse_temporal_fields(timed_events[cursor + 1]).raised
    /\ build' = "raised"
    /\ UNCHANGED <<timed_events, enrichments, cursor, built, table>>
    /\ UNCHANGED outside_builder

\* after the loop: the records are embedded and written to the table
write_table ==
    /\ build = "loop"
    /\ cursor = Len(timed_events)
    /\ table' = built
    /\ build' = "written"
    /\ UNCHANGED <<timed_events, enrichments, cursor, built>>
    /\ UNCHANGED outside_builder

\* a builder has been handed a list of records and an enrichment cache
InitBuild ==
    /\ Constructed
    /\ timed_events \in Calendars
    /\ enrichments \in {EmptyMap, [id \in Ids |-> EnrichedA(id)]}
    /\ cursor = 0
    /\ built = <<>>
    /\ table = <<>>
    /\ build = "loop"

NextBuild ==
    \/ build_record
    \/ build_raises
    \/ write_table

\* one run of a vector builder over each list of timed records
SpecBuild == InitBuild /\ [][NextBuild]_vars

----------------------------------------------------------------------------
(* The OAuth links: create_auth_url and exchange_code of google_auth.py *)

\* what the OAuth functions never touch
outside_oauth == <<pipeline, bot, targets, builder, agent>>

\* secrets.token_urlsafe(32): a nonce is never drawn twice
Nonces == {"n1", "n2"}

\* the state parameters a callback may carry: text without a colon, or a user
\* id and a nonce around the first colon
States ==
    {[parts |-> 1, user_id_str |-> "", nonce |-> ""]}
    \cup {[parts |-> 2, user_id_str |-> u, nonce |-> n] : u \in Users, n \in Nonces}

_PENDING_TTL == 600

\* time passes between two calls
time_passes(seconds) ==
    /\ nticks < MaxTicks
    /\ nticks' = nticks + 1
    /\ clock' = clock + seconds

\* a cleanup that removes nothing
KeepPending(pending, now) == pending

\* _cleanup_expired
_cleanup_expired(pending, now) ==
    [k \in {n \in DOMAIN pending : ~(now - pending[n].created_at > _PENDING_TTL)}
        |-> pending[k]]

\* a lookup that leaves the entry in the map
KeepEntry(pending, nonce) == pending

\* _oauth_pending.pop(nonce, None), for a nonce it holds
pop_pending(pending, nonce) == [k \in DOMAIN pending \ {nonce} |-> pending[k]]

\* create_auth_url
create_auth_url ==
    /\ \E user_id \in Users, nonce \in Nonces \ DOMAIN issued :
          LET entry == [n \in {nonce} |-> [user_id |-> user_id, created_at |-> clock]]
          IN  /\ _oauth_pending' = CacheUpdate(_cleanup_expired(_oauth_pending, clock), entry)
              /\ issued' = CacheUpdate(issued, entry)
    /\ UNCHANGED <<redeemed, exchanged, nexch, time>>
    /\ UNCHANGED outside_oauth

\* exchange_code; flow.fetch_token returns or raises
exchange_code ==
    /\ nexch < MaxExchanges
    /\ nexch' = nexch + 1
    /\ \E state \in States, token_ok \in BOOLEAN :
          LET cleaned == _cleanup_expired(_oauth_pending, clock)
              Result(r) == exchanged' = [state |-> state, result |-> r, at |-> clock]
          IN  IF state.parts # 2
              THEN /\ Result("ValueError")
                   /\ _oauth_pending' = cleaned
                   /\ UNCHANGED redeemed
              ELSE IF state.nonce \notin DOMAIN cleaned
              THEN /\ Result("ValueError")
                   /\ _oauth_pending' = cleaned
                   /\ UNCHANGED redeemed
              ELSE LET pending == cleaned[state.nonce] IN
                   /\ _oauth_pending' = pop_pending(cleaned, state.nonce)
                   /\ IF pending.user_id # state.user_id_str
                      THEN Result("ValueError") /\ UNCHANGED redeemed
                      ELSE IF token_ok
                      THEN /\ Result("credentials")
                           /\ redeemed' = Append(redeemed, [nonce |-> state.nonce,
                                                            user_id |-> pending.user_id,
                                                            at |-> clock])
                      ELSE Result("error") /\ UNCHANGED redeemed
    /\ UNCHANGED <<issued, time>>
    /\ UNCHANGED outside_oauth

\* five minutes pass
oauth_wait ==
    /\ time_passes(300)
    /\ UNCHANGED oauth
    /\ UNCHANGED outside_oauth

NextOAuth ==
    \/ create_auth_url
    \/ exchange_code
    \/ oauth_wait

\* links made and callbacks received, in any order, as time passes
SpecOAuth == Init /\ [][NextOAuth]_vars

----------------------------------------------------------------------------
(* The conversations: the sessions of agent.py and run_agent *)

\* what the agent never touches
outside_agent == <<pipeline, bot, targets, builder, oauth>>

\* Session ids are numbered in the order uuid4 makes them, so a new id is
\* never one that was made before; 0 is None, and -1 is an id that was never
\* made.

\* the session_id arguments of a call
GivenIds == {0, 0 - 1} \cup 1..minted

SESSION_TTL == 3600

\* a pruning that removes nothing
KeepSessions(sessions, now) == sessions

\* _prune_sessions
_prune_sessions(sessions, now) ==
    [sid \in {x \in DOMAIN sessions : ~(now - sessions[x].last_active > SESSION_TTL)}
        |-> sessions[sid]]

\* _get_or_create_session: the id of the session to use, and _sessions after it
_get_or_create_session(sessions, session_id, now, new_id) ==
    LET pruned == _prune_sessions(sessions, now) IN
    IF session_id # 0 /\ session_id \in DOMAIN pruned
    THEN [session_id |-> session_id,
          sessions |-> [pruned EXCEPT ![session_id].last_active = now]]
    ELSE [session_id |-> new_id,
          sessions |-> CacheUpdate(pruned, [x \in {new_id} |->
                                              [messages |-> <<>>, last_active |-> now]])]

\* what a session id is to _sessions before a call
StandingOf(session_id) ==
    IF session_id \notin DOMAIN _sessions THEN "absent"
    ELSE IF clock - _sessions[session_id].last_active > SESSION_TTL THEN "idle"
    ELSE "live"

max_iterations == 10

\* what the model service does on the calls of one run_agent: it asks for
\* tools a number of times (never, up to the last pass of the loop, or in
\* every pass) and then, on every further call, gives text, stops for tool
\* use without a tool_use block, or raises
Scripts ==
    {[j \in 1..max_iterations |-> IF j <= k THEN "tool_use" ELSE kind] :
        k \in {0, max_iterations - 1, max_iterations},
        kind \in {"text", "tool_use_empty", "raise"}}

RECURSIVE tool_use_loop(_, _)
\* the tool-use loop of run_agent after `iteration` passes: how many calls of
\* the model it makes in all and how it ends: with the text of the model, with
\* the message of the for-else at the iteration limit, with an exception of
\* client.messages.create, or by the break of an empty tool_results, which
\* leaves `answer` unbound for the append after the loop
tool_use_loop(responses, iteration) ==
    IF iteration = max_iterations THEN [calls |-> iteration, end |-> "limit"]
    ELSE LET response == responses[iteration + 1] IN
         IF response = "raise" THEN [calls |-> iteration + 1, end |-> "raised"]
         ELSE IF response = "tool_use" THEN tool_use_loop(responses, iteration + 1)
         ELSE IF response = "tool_use_empty"
             THEN [calls |-> iteration + 1, end |-> "unbound"]
         ELSE [calls |-> iteration + 1, end |-> "text"]

\* run_agent: the session is chosen and the question appended; the tool-use
\* loop works on a copy of the history; either the loop ends and the answer
\* is appended, or client.messages.create raises (or the loop is left before
\* answer is bound) and the call is left there.  An exception of a tool is
\* caught in the loop and does not end the call.
run_agent(session_id, responses) ==
    /\ ncalls < MaxCalls
    /\ ncalls' = ncalls + 1
    /\ LET loop == tool_use_loop(responses, 0)
           raises == loop.end \in {"raised", "unbound"}
           got == _get_or_create_session(_sessions, session_id, clock, minted + 1)
           sid == got.session_id
           asked == [got.sessions EXCEPT ![sid].messages =
                         Append(@, [role |-> "user", call |-> ncalls + 1])]
       IN  /\ _sessions' =
                  IF raises THEN asked
                  ELSE [asked EXCEPT ![sid].messages =
                            Append(@, [role |-> "assistant", call |-> ncalls + 1])]
           /\ minted' = IF sid = minted + 1 THEN minted + 1 ELSE minted
           /\ reply' = [given |-> session_id, used |-> sid,
                        session_id |-> IF raises THEN 0 ELSE sid,
                        raised |-> raises, was |-> StandingOf(session_id),
                        model_calls |-> loop.calls, end |-> loop.end]
    /\ UNCHANGED time
    /\ UNCHANGED outside_agent

\* a call that returns its answer
run_agent_returns ==
    \E session_id \in GivenIds, responses \in Scripts :
        /\ tool_use_loop(responses, 0).end \in {"text", "limit"}
        /\ run_agent(session_id, responses)

\* a call that an exception leaves
run_agent_raises ==
    \E session_id \in GivenIds, responses \in Scripts :
        /\ tool_use_loop(responses, 0).end \in {"raised", "unbound"}
        /\ run_agent(session_id, responses)

\* reset_session
reset_session ==
    /\ \E session_id \in 1..minted :
          _sessions' = [sid \in DOMAIN _sessions \ {session_id} |-> _sessions[sid]]
    /\ UNCHANGED <<minted, reply, ncalls, time>>
    /\ UNCHANGED outside_agent

\* half an hour passes
agent_wait ==
    /\ time_passes(1800)
    /\ UNCHANGED agent
    /\ UNCHANGED outside_agent

NextAgent ==
    \/ run_agent_returns
    \/ run_agent_raises
    \/ reset_session
    \/ agent_wait

\* questions asked, sessions reset, in any order, as time passes
SpecAgent == Init /\ [][NextAgent]_vars

----------------------------------------------------------------------------
(* Properties of the cached passes *)

\* the positions of a pass between its load_cache and its return
InPass == pc \in {"batch", "call", "update", "save_open", "save_write", "save_replace"}

\* C1: an enrichment pass over the same records as the last returned
\* enrichment pass, started from the cache that pass left, makes no request to
\* the generation service and returns the mapping that pass returned.
C1_RerunMakesNoCall ==
    (/\ InPass
     /\ stage = "enrichment"
     /\ prev2.valid
     /\ events = prev2.events
     /\ run.loaded = prev2.cache)
    => /\ run.calls = 0
       /\ cache = prev2.cache

\* C2: the records of the request in flight are exactly the records of the
\* batch whose identifier has no entry in the cache; no identifier that has an
\* entry in the cache, in the cache as this pass loaded it or in the persisted
\* cache file is part of a request.
C2_DispatchOnlyUncached ==
    pc = "call" =>
        LET batch == Batch(events, i, BatchSize(stage))
            missing == {k \in 1..Len(batch) : batch[k].event_id \notin DOMAIN cache}
            file == files[CachePath(stage)]
        IN  /\ Len(uncached) = Cardinality(missing)
            /\ \A j \in 1..Len(uncached) : \E k \in missing : uncached[j] = batch[k]
            /\ \A k \in missing : \E j \in 1..Len(uncached) : uncached[j] = batch[k]
            /\ SeqIds(uncached) \cap DOMAIN cache = {}
            /\ SeqIds(uncached) \cap DOMAIN run.loaded = {}
            /\ file.st = "full" => SeqIds(uncached) \cap DOMAIN file.data = {}

\* C2, its case: a request for a batch of which one record is cached already
C2_PartlyCachedBatch ==
    /\ pc = "call"
    /\ uncached # <<>>
    /\ Len(uncached) < Len(Batch(events, i, BatchSize(stage)))

\* C3: a pass restarted on the records of a pass that was killed sends to the
\* service no record of a batch the killed pass had received and persisted.
C3_RestartResendsOnlyInFlight ==
    (/\ pc = "call"
     /\ crashed.valid
     /\ crashed.stage = stage
     /\ crashed.events = events)
    => SeqIds(uncached) \cap crashed.done = {}

\* C4: the file at a cache or taxonomy path changes in one step only, the
\* os.replace of save_cache, and then to the complete new content; it never
\* holds an incomplete text, and a kill of the process changes no file, so at
\* whatever step save_cache is killed the path holds its previous content or
\* the new one.
C4_SaveCacheAtomic ==
    [][/\ \A p \in JsonPaths :
            /\ files'[p].st # "partial"
            /\ files'[p] # files[p] =>
                   /\ pc = "save_replace"
                   /\ p = CachePath(stage)
                   /\ files'[p] = FullFile(SaveData)
       /\ ncrash' # ncrash => files' = files]_vars

\* C4, its case: the process was killed inside save_cache, between the open
\* of the temporary file and the rename
C4_KilledInSave ==
    /\ outcome = "crashed"
    /\ \E p \in JsonPaths : files[TmpPath(p)].st \in {"partial", "full"}

----------------------------------------------------------------------------
(* Properties of the incremental sync *)

\* the positions of the fetched window whose identifier has no events row
Unstored == {k \in 1..Len(fetched) : fetched[k].event_id \notin DOMAIN db.events}

\* rows is old with rows appended whose event_id is in ids
AppendedFor(rows, old, ids) ==
    /\ Len(rows) >= Len(old)
    /\ SubSeq(rows, 1, Len(old)) = old
    /\ \A k \in Len(old) + 1..Len(rows) : rows[k].event_id \in ids

\* C5: _sync_events hands to the passes, to upsert_events and to
\* upsert_vectors exactly the fetched records whose identifier has no events
\* row; every request, every row written and every vector entry appended is
\* for one of these identifiers, and the rows stored before stay as they were.
C5_SyncProcessesExactlyNew ==
    [][op = "sync" =>
        /\ (pc = "sync_diff" /\ op' = "sync") =>
              /\ SeqIds(events') = {fetched[k].event_id : k \in Unstored}
              /\ Len(events') = Cardinality(Unstored)
              /\ \A k \in Unstored : \E j \in 1..Len(events') : events'[j] = fetched[k]
              /\ new_ids' = SeqIds(events')
        /\ (pc # "sync_diff" /\ op' = "sync") =>
              /\ events' = events
              /\ new_ids' = new_ids
              /\ new_ids = SeqIds(events)
        /\ pc' = "call" => SeqIds(uncached') \subseteq new_ids
        /\ csv' # csv => csv'.rows = csv.rows \o events
        /\ db' # db =>
              /\ pc = "upsert_events"
              /\ new_ids \cap DOMAIN db.events = {}
              /\ DOMAIN db'.events = DOMAIN db.events \cup new_ids
              /\ \A id \in DOMAIN db.events : db'.events[id] = db.events[id]
              /\ AppendedFor(db'.sub_activities, db.sub_activities, new_ids)
              /\ AppendedFor(db'.event_people, db.event_people, new_ids)
        /\ vec' # vec =>
              /\ pc = "vec_add"
              /\ AppendedFor(vec'.rows, vec.rows, new_ids)]_vars

\* C5, its case: a sync whose window held a stored and a new record has
\* written the new one
C5_SyncedPartOfWindow ==
    /\ op = "sync"
    /\ pc = "invalidate"
    /\ Len(events) < Len(fetched)
    /\ new_ids \subseteq DOMAIN db.events

\* C6: when every fetched identifier has an events row, _sync_events returns
\* the up-to-date message in its next step, with the CSV, the cache files,
\* the relational store, the vector table and the handle cache unchanged and
\* no request made.
C6_UpToDateWritesNothing ==
    [][(/\ pc = "sync_diff"
        /\ \A k \in 1..Len(fetched) : fetched[k].event_id \in DOMAIN db.events)
       => /\ pc' = "idle"
          /\ outcome' = "up_to_date"
          /\ csv' = csv
          /\ files' = files
          /\ db' = db
          /\ vec' = vec
          /\ _vector_tables' = _vector_tables
          /\ run'.calls = 0]_vars

\* C6, its case: a sync of a window of stored records has returned while a
\* table handle is held
C6_UpToDateReturned ==
    /\ outcome = "up_to_date"
    /\ db.events # EmptyMap
    /\ _vector_tables

----------------------------------------------------------------------------
(* Properties of the error handling *)

\* the response kinds on which the retry loop of the pass goes on
FailedKinds == IF stage = "discovery" THEN {"fail"} ELSE {"fail", "notlist"}

\* r is the minimal record of ev
IsMinimal(r, ev) ==
    /\ r.event_id = ev.event_id
    /\ r.sub_activities = <<ev.summary>>
    /\ r.people = <<>>
    /\ r.locations = <<>>
    /\ r.categories = <<>>
    /\ ~r.is_productive
    /\ ~r.is_wasted_time

\* the value the batch function returned is the degraded one
IsDegraded ==
    IF stage = "discovery"
    THEN /\ result.kind = "dict"
         /\ DOMAIN result.map = SeqIds(uncached)
         /\ \A id \in DOMAIN result.map : result.map[id] = <<>>
    ELSE /\ result.kind = "list"
         /\ Len(result.items) = Len(uncached)
         /\ \A k \in 1..Len(uncached) : IsMinimal(result.items[k], uncached[k])

\* C7: a batch makes at most 3 requests; another request follows only a
\* failed one and only while fewer than 3 were made; a response that is
\* accepted ends the loop with that response, and the third failure ends it
\* with the degraded value for every record of the batch.
C7_RetryBound ==
    /\ run.batchCalls <= 3
    /\ pc = "call" =>
          /\ run.batchCalls = attempt
          /\ run.batchCalls < 3
          /\ run.batchCalls > 0 => run.lastKind \in FailedKinds
    /\ pc = "update" =>
          /\ run.batchCalls >= 1
          /\ IF run.lastKind \in FailedKinds
             THEN run.batchCalls = 3 /\ IsDegraded
             ELSE result.kind = run.lastKind

\* C7, its case: the third request of a batch has failed
C7_ThirdFailure ==
    /\ pc = "update"
    /\ run.batchCalls = 3
    /\ run.lastKind \in FailedKinds

\* the sub_activities rows of an identifier
RowsOf(id) == {k \in 1..Len(db.sub_activities) : db.sub_activities[k].event_id = id}

\* C8: once the operation has materialized, every identifier of an enrichment
\* batch that used up its attempts has an events row with both flags false
\* and empty people, locations and categories, and one sub_activities row,
\* whose activity is the title.
C8_DegradedBatchMaterialized ==
    run.materialized =>
        \A id \in run.degraded :
            /\ id \in DOMAIN db.events
            /\ ~db.events[id].is_productive
            /\ ~db.events[id].is_wasted_time
            /\ db.events[id].people = ""
            /\ db.events[id].locations = ""
            /\ db.events[id].categories = ""
            /\ Cardinality(RowsOf(id)) = 1
            /\ \A k \in RowsOf(id) : db.sub_activities[k].activity = db.events[id].summary

\* C9: no operation ends with an exception raised by a pass over a response
\* of the generation service.
C9_PassNeverRaises ==
    ~(outcome = "error" /\ errAt \in {"discovery_update", "enrichment_map"})

\* C10: one consolidation request at most is made in a run; when its response
\* does not parse, the run has ended with the error, no taxonomy file or
\* temporary file was written, the enrichment pass was not entered and
\* nothing was materialized.
C10_ConsolidationFatal ==
    /\ run.consCalls <= 1
    /\ (pc = "consolidated" \/ stage = "taxonomy") => run.consCalls = 1
    /\ run.consFailed =>
          /\ pc = "idle"
          /\ outcome = "error"
          /\ errAt = "consolidate"
          /\ files[TAXONOMY_FILE].st = "absent"
          /\ files[TmpPath(TAXONOMY_FILE)].st = "absent"
          /\ ~run.ranEnrichment
          /\ ~run.materialized

\* C10, its case: the consolidation response did not parse
C10_ParseFailed ==
    /\ run.consFailed
    /\ run.consCalls = 1

----------------------------------------------------------------------------
(* Properties of the taxonomy and of the cache entries *)

\* the names of a taxonomy
TaxonomyNames(t) == {t.categories[k].name : k \in 1..Len(t.categories)}

\* C11: while the enrichment pass runs, every category of every entry of its
\* cache is a name of the taxonomy the pass was given.
C11_TaxonomyClosure ==
    (InPass /\ stage = "enrichment") =>
        \A id \in DOMAIN cache :
            \A k \in 1..Len(cache[id].categories) :
                cache[id].categories[k] \in TaxonomyNames(taxonomy)

\* C12: once taxonomy.json exists no step changes or removes it and no
\* consolidation is started; the enrichment pass of a full run and of an
\* incremental sync is entered with the content of the file.
C12_TaxonomyWrittenOnce ==
    [][/\ files[TAXONOMY_FILE].st # "absent" =>
            /\ files'[TAXONOMY_FILE] = files[TAXONOMY_FILE]
            /\ pc' # "consolidate"
       /\ (pc' = "load" /\ stage' = "enrichment") =>
            /\ files'[TAXONOMY_FILE].st = "full"
            /\ taxonomy' = files'[TAXONOMY_FILE].data]_vars

\* C12, its case: a full run that found the artifact is in its enrichment
\* pass without having consolidated
C12_RunOnExistingTaxonomy ==
    /\ op = "etl"
    /\ stage = "enrichment"
    /\ InPass
    /\ run.consCalls = 0
    /\ files[TAXONOMY_FILE].st = "full"

\* C13: an entry of the persisted discovery or enrichment cache stays as it
\* is in every step: a step may only add entries for identifiers that had
\* none.
C13_CacheEntriesImmutable ==
    [][\A p \in {DISCOVERY_CACHE, ENRICHMENT_CACHE} :
          \A id \in DOMAIN files[p].data :
              /\ id \in DOMAIN files'[p].data
              /\ files'[p].data[id] = files[p].data[id]]_vars

----------------------------------------------------------------------------
(* Properties of the two stores *)

\* the identifiers that have an entry in the vector table
VectorIds == {vec.rows[k].event_id : k \in 1..Len(vec.rows)}

\* C14: in the states an operation leaves behind, whether it returned, raised
\* or was killed, every identifier that has a vector entry has an events row.
C14_VectorIdsStored ==
    pc = "idle" => VectorIds \subseteq DOMAIN db.events

\* C15: an incremental sync that raises after it found new records leaves
\* calendar.db with its three tables; an incremental sync that returns without
\* error leaves every identifier of its window that an earlier failed sync had
\* found new with an events row and, when it has sub_activities rows, with
\* vector entries.
C15_FailedSyncResumes ==
    [][(op = "sync" /\ pc' = "idle") =>
        /\ (outcome' = "error" /\ run.found # {}) =>
              /\ db'.exists
              /\ db'.tables = 3
        /\ outcome' \in {"ok", "up_to_date"} =>
              \A id \in run.pending \cap SeqIds(fetched) :
                  /\ id \in DOMAIN db'.events
                  /\ (\E k \in 1..Len(db'.sub_activities) :
                          db'.sub_activities[k].event_id = id)
                     => \E k \in 1..Len(vec'.rows) : vec'.rows[k].event_id = id]_vars

\* C16: a sync that fetched records takes the bootstrap path (CSV export, then
\* the full rebuild) exactly when calendar.db does not exist and the diff path
\* otherwise; once a bootstrap has returned, no later sync takes the
\* bootstrap path
C16_BootstrapOnlyWithoutStore ==
    [][(pc = "idle" /\ op' \in {"bootstrap", "sync"}) =>
          /\ op' = "bootstrap" <=> ~db.exists
          /\ op' = "bootstrap" => pc' = "export_csv"
          /\ op' = "sync" => pc' = "sync_diff"
          /\ run'.bootstrapped => op' = "sync"]_vars

\* an incremental sync of a target that was bootstrapped before
C16_SyncAfterBootstrap ==
    /\ op = "sync" /\ pc = "sync_diff"
    /\ run.bootstrapped

\* C17: when upsert_events has run, running it once more with the same events,
\* cache and identifier set leaves the events, sub_activities and event_people
\* tables as they are
C17_UpsertEventsIdempotent ==
    (pc = "upsert_vectors" /\ run.materialized) =>
        LET again == upsert_events(db, events, cache, new_ids) IN
        /\ again.events = db.events
        /\ again.sub_activities = db.sub_activities
        /\ again.event_people = db.event_people

\* the activity texts that a table of rows holds for one identifier, in order
ActivitiesOf(rows, id) ==
    LET P(r) == r.event_id = id IN
    [k \in 1..Len(SelectSeq(rows, P)) |-> SelectSeq(rows, P)[k].activity]

\* C18: when a full rebuild or an incremental sync has returned without
\* error, the vector table holds for every identifier as many entries as the
\* sub_activities table holds rows, with the same activity texts
C18_OneVectorPerSubActivity ==
    (pc = "idle" /\ outcome = "ok") =>
        \A id \in Ids : ActivitiesOf(vec.rows, id) = ActivitiesOf(db.sub_activities, id)

\* calendar.db with its three tables and no row
EmptyDb == [NoDb EXCEPT !.exists = TRUE, !.tables = 3]

\* C19: a full rebuild starts both stores from nothing (calendar.db is gone
\* before it is connected to, the vector table is gone before it is created),
\* and when the rebuild returns, both stores hold exactly the rows built from
\* the records it was given, so only their identifiers
C19_RebuildFromScratch ==
    /\ [](pc = "db_connect" => db = NoDb)
    /\ [](pc = "vec_create" => vec = NoTable)
    /\ [][(op \in {"etl", "bootstrap"} /\ outcome' = "ok") =>
            /\ DOMAIN db'.events \subseteq SeqIds(events)
            /\ \A id \in Ids \ SeqIds(events) :
                  /\ ActivitiesOf(db'.sub_activities, id) = <<>>
                  /\ ActivitiesOf(vec'.rows, id) = <<>>
                  /\ \A k \in 1..Len(db'.event_people) : db'.event_people[k].event_id # id
            /\ db' = create_database(EmptyDb, events, cache)
            /\ vec'.rows = BuildRecords(events, cache, SeqIds(events))]_vars

\* a rebuild has returned on a target whose stores held rows before it
C19_RebuiltOverEarlierRows ==
    /\ pc = "idle" /\ outcome = "ok"
    /\ run.replaced # {}

\* C20: records are told apart by identifier alone (all records of the model
\* carry the same title): the diff treats a fetched record as already seen
\* exactly when its identifier is in the events table, and when a sync has
\* returned, every identifier it processed has an enrichment-cache entry and
\* an events row under its own identifier
C20_IdentifierIsSoleKey ==
    [][/\ (op = "sync" /\ pc = "sync_diff" /\ outcome' # "error") =>
             LET treated_new == IF pc' = "idle" THEN {} ELSE new_ids' IN
             \A id \in SeqIds(fetched) : id \in treated_new <=> id \notin DOMAIN db.events
       /\ (op \in {"sync", "bootstrap"} /\ outcome' = "ok") =>
             \A id \in (IF op = "sync" THEN new_ids ELSE SeqIds(events)) :
                 /\ id \in DOMAIN files'[ENRICHMENT_CACHE].data
                 /\ files'[ENRICHMENT_CACHE].data[id].event_id = id
                 /\ id \in DOMAIN db'.events
                 /\ db'.events[id].event_id = id]_vars

----------------------------------------------------------------------------
(* Properties of the bot *)

\* the executor jobs (sync_calendar_oauth, run_etl) that write the target of u
Writers(u) == {h \in handlers : h.user = u /\ h.at = "executor"}

C23_HandleDroppedAfterSync ==
    [][/\ (op = "sync" /\ outcome' = "ok" /\ run.found # {}) => ~_vector_tables'
       /\ (op = "sync" /\ ~_vector_tables) => (pc' = "idle" \/ ~_vector_tables')]_vars

\* a sync has appended entries and returned in a process that held a handle
\* when the sync started
C23_SyncedWithCachedHandle ==
    /\ pc = "idle" /\ outcome = "ok"
    /\ run.found # {} /\ run.hadHandle
    /\ \E k \in 1..Len(vec.rows) : vec.rows[k].event_id \in run.found

----------------------------------------------------------------------------
(* Properties of the normalizer and of the embedding text *)

\* the record of a list that carries an identifier
RecordOf(evs, id) == CHOOSE ev \in {evs[k] : k \in 1..Len(evs)} : ev.event_id = id

\* a record whose start and end parse
Parseable(ev) == ev.start_dt.kind # "bad" /\ ev.end_dt.kind # "bad"

\* the identifiers a list of vector records has rows for
RowIds(rows) == {rows[k].event_id : k \in 1..Len(rows)}

\* C24: every record the loop has normalized has rows (also when it ends at
\* or before its start); a date-only record has start hour 0, the weekday of
\* its date and a duration of 1440 minutes per day from start to end; a
\* timestamped record has the hour and the weekday that the configured zone
\* shows at its start instant, and a duration of the minutes from its start
\* instant to its end instant
C24_TemporalFields ==
    /\ \A k \in 1..cursor : timed_events[k].event_id \in RowIds(built)
    /\ \A k \in 1..Len(built) :
          LET row == built[k]
              ev == RecordOf(timed_events, row.event_id)
              s == ev.start_dt.at
              e == ev.end_dt.at
          IN  IF ev.start_dt.kind = "date"
                  THEN /\ row.start_hour = 0
                       /\ row.day_of_week = Weekdays[(s % 7) + 1]
                       /\ row.duration_minutes = 1440 * (e - s)
                  ELSE /\ row.start_hour = (s + utcoffset(s)) % 24
                       /\ row.day_of_week = Weekdays[(((s + utcoffset(s)) \div 24) % 7) + 1]
                       /\ row.duration_minutes = 60 * (e - s)

\* C25: a builder that was handed a record whose start or end does not parse
\* returns, and has written the rows of every record that does parse
C25_BadRecordSkippedAlone ==
    build # "loop" =>
        /\ build = "written"
        /\ \A k \in 1..Len(timed_events) :
              Parseable(timed_events[k]) => timed_events[k].event_id \in RowIds(table)

\* the time band of an hour of the day
C26_Band(h) ==
    CASE h < 6 -> 1 [] h >= 6 /\ h < 12 -> 2 [] h >= 12 /\ h < 17 -> 3
      [] h >= 17 /\ h < 21 -> 4 [] OTHER -> 5

\* the weekday/weekend class of a row
C26_Weekend(row) == row.day_of_week \in {"Saturday", "Sunday"}

\* C26: two rows of the same sub-activity whose records differ only in start
\* and end, and fall into the same time band and the same weekday/weekend
\* class, carry the same embedding text
C26_TextIgnoresExactTime ==
    \A j \in 1..Len(built), k \in 1..Len(built) :
        (/\ built[j].activity = built[k].activity
         /\ C26_Band(built[j].start_hour) = C26_Band(built[k].start_hour)
         /\ C26_Weekend(built[j]) = C26_Weekend(built[k]))
            => built[j].text = built[k].text

\* the table holds two rows of one sub-activity with different dates, start
\* hours and durations, of the same time band and class
C26_SameBandOtherHour ==
    /\ build = "written"
    /\ \E j \in 1..Len(table), k \in 1..Len(table) :
          /\ table[j].activity = table[k].activity
          /\ table[j].date # table[k].date
          /\ table[j].start_hour # table[k].start_hour
          /\ table[j].duration_minutes # table[k].duration_minutes
          /\ C26_Band(table[j].start_hour) = C26_Band(table[k].start_hour)
          /\ C26_Weekend(table[j]) = C26_Weekend(table[k])

----------------------------------------------------------------------------
(* Properties of what an operation reports *)

\* C27: an operation in which an enrichment batch used up its attempts does
\* not return its summary: the summary of _sync_events and the message of a
\* rebuild give the number of records and their dates, and nothing in them
\* tells a degraded record from an enriched one
C27_NoSilentDegradation ==
    (pc = "idle" /\ outcome = "ok") => run.degraded = {}

----------------------------------------------------------------------------
(* Properties of the OAuth links *)

\* the exchanges that returned credentials for a nonce
Redemptions(nonce) == {k \in 1..Len(redeemed) : redeemed[k].nonce = nonce}

\* C28: no nonce is redeemed twice; an exchange returns credentials only for
\* a well-formed state whose nonce was issued, was never redeemed, is at most
\* 600 seconds old and was issued for the user id the state names; an
\* exchange for which one of these fails raises ValueError
C28_StateRedeemedOnce ==
    /\ [](\A n \in Nonces : Cardinality(Redemptions(n)) <= 1)
    /\ [][nexch' # nexch =>
            LET st == exchanged'.state
                good == /\ st.parts = 2
                        /\ st.nonce \in DOMAIN issued
                        /\ Redemptions(st.nonce) = {}
                        /\ clock - issued[st.nonce].created_at <= 600
                        /\ issued[st.nonce].user_id = st.user_id_str
            IN  /\ exchanged'.result = "credentials" => good
                /\ ~good => exchanged'.result = "ValueError"]_vars

\* a state that was redeemed is presented again, by the same user, and refused
C28_SecondUseRefused ==
    /\ exchanged.result = "ValueError"
    /\ exchanged.state.parts = 2
    /\ \E k \in 1..Len(redeemed) :
          /\ redeemed[k].nonce = exchanged.state.nonce
          /\ redeemed[k].user_id = exchanged.state.user_id_str

----------------------------------------------------------------------------
(* Properties of the conversations *)

\* the roles of a history
Roles(messages) == [k \in 1..Len(messages) |-> messages[k].role]

\* C29: a call given no id, an id that is not stored (never made, reset, or
\* pruned) or an id idle for more than 3600 seconds uses a session with an
\* id never made before, whose history holds nothing from before the call,
\* and returns that id; a call given a stored id not idle for more than 3600
\* seconds uses that session, keeps what its history held and sets its
\* last_active to the time of the call; the last_active and the history of
\* every other stored session are left as they were
C29_SessionChoice ==
    [][ncalls' # ncalls =>
          LET g == reply'.given
              sid == reply'.used
              live == /\ g \in DOMAIN _sessions
                      /\ clock - _sessions[g].last_active <= 3600
              after == _sessions'[sid].messages
          IN  /\ sid \in DOMAIN _sessions'
              /\ _sessions'[sid].last_active = clock
              /\ \A x \in DOMAIN _sessions' \ {sid} :
                    x \in DOMAIN _sessions /\ _sessions'[x] = _sessions[x]
              /\ ~reply'.raised => reply'.session_id = sid
              /\ IF live
                 THEN /\ sid = g
                      /\ Len(after) > Len(_sessions[g].messages)
                      /\ SubSeq(after, 1, Len(_sessions[g].messages)) = _sessions[g].messages
                 ELSE /\ sid \notin 1..minted
                      /\ sid \notin {0, 0 - 1}
                      /\ \A k \in 1..Len(after) : after[k].call = ncalls'
                      /\ after[1].role = "user"]_vars

\* a call was given the id of a session idle for more than an hour and has
\* returned the id of a new session
C29_IdleIdStartsAnew ==
    /\ reply.was = "idle"
    /\ ~reply.raised
    /\ reply.session_id # reply.given
    /\ Roles(_sessions[reply.session_id].messages) = <<"user", "assistant">>

\* C30: every stored history alternates user and assistant messages, starting
\* with a user message and ending with an assistant message
C30_HistoryAlternates ==
    \A sid \in DOMAIN _sessions :
        LET messages == _sessions[sid].messages IN
        /\ Len(messages) % 2 = 0
        /\ \A k \in 1..Len(messages) :
              messages[k].role = IF k % 2 = 1 THEN "user" ELSE "assistant"

\* C31: a call in which the model service never raises makes at most 10
\* calls of the model and returns an answer: the text of the model, or the
\* message of the iteration limit
C31_LoopReturnsAnswer ==
    /\ reply.model_calls <= 10
    /\ reply.end \notin {"none", "raised"} =>
          (~reply.raised /\ reply.end \in {"text", "limit"})

----------------------------------------------------------------------------
(* Properties of the registry status *)

\* the /process handlers of the bot that are running the pipeline
Processing(hs) == {h \in hs : h.cmd = "process" /\ h.at = "executor"}

\* C32: a /process handler that finds the status "processing" starts no run;
\* while a /process run is under way the status of its user is "processing";
\* and the step in which the run returns or raises sets the status to "ready"
\* or "error"
C32_ProcessStatus ==
    /\ [](\A h \in Processing(handlers) : users[h.user].status = "processing")
    /\ [][/\ \A h \in handlers :
                (h.cmd = "process" /\ h.at = "start"
                 /\ users[h.user].status = "processing")
                    => Processing(handlers') \subseteq Processing(handlers)
          /\ \A h \in Processing(handlers) \ Processing(handlers') :
                users'[h.user].status \in {"ready", "error"}]_vars

\* a /process request is about to be handled while the status of its user is
\* "processing"
C32_RequestWhileProcessing ==
    \E h \in handlers :
        /\ h.cmd = "process" /\ h.at = "start"
        /\ users[h.user].has_csv
        /\ users[h.user].status = "processing"

\* the messages with which a /sync or a /process returns; cmd_sync and
\* cmd_process save the status "ready" on each of them
ReturnedMessages == {"ok", "up_to_date", "no_events"}

\* C33: when a /sync or a /process has returned, so that its handler saves
\* the status "ready", calendar.db exists
C33_ReadyHasDatabase ==
    (pc = "idle" /\ outcome \in ReturnedMessages) => db.exists

\* C34: when sync_calendar_oauth takes the incremental path, calendar.db
\* has its three tables, the taxonomy file is there and the vector table
\* exists; and a bootstrap that raises leaves no calendar.db behind
C34_IncrementalAfterFullBootstrap ==
    /\ [](op = "sync" /\ pc = "sync_diff" =>
            /\ db.tables = 3
            /\ TaxonomyExists(files[TAXONOMY_FILE])
            /\ vec.exists)
    /\ [][(op = "bootstrap" /\ outcome' = "error") => ~db'.exists]_vars

\* the positions at which a list of rows names an identifier
PositionsOf(rows, id) == {k \in 1..Len(rows) : rows[k].event_id = id}

\* C35: between operations, each identifier is on at most one line of the
\* raw-record log, no two sub_activities rows of an identifier carry the same
\* activity and no two event_people rows of an identifier the same person
C35_NoDuplicateRows ==
    pc = "idle" =>
        \A id \in Ids :
            /\ Cardinality(PositionsOf(csv.rows, id)) <= 1
            /\ \A j, k \in PositionsOf(db.sub_activities, id) :
                  db.sub_activities[j].activity = db.sub_activities[k].activity => j = k
            /\ \A j, k \in PositionsOf(db.event_people, id) :
                  db.event_people[j].person = db.event_people[k].person => j = k

----------------------------------------------------------------------------
(* Properties of the cache after a pass *)

\* the step in which a pass returns its cache to its caller
PassReturns == pc = "batch" /\ pc' \in {"load", "taxonomy", "upsert_events", "db_remove"}

\* C36: the cache a pass returns has an entry for every identifier of the
\* records it was given
C36_ReturnedCacheCoversInput ==
    [][PassReturns => SeqIds(events) \subseteq DOMAIN cache]_vars

\* the value a pass stores for an identifier whose batch used up its attempts
DegradedValue(path, id) ==
    IF path = DISCOVERY_CACHE THEN <<>> ELSE MinimalEnrichment(RawRecord(id))

\* a cache file holds the degraded value for an identifier
HoldsDegraded(file, path, id) ==
    /\ file.st = "full"
    /\ id \in DOMAIN file.data
    /\ file.data[id] = DegradedValue(path, id)

\* C37: once a cache file holds the degraded value for an identifier, it goes
\* on holding it, and no request of the pass of that file asks for the
\* identifier again
C37_DegradedValueStays ==
    [][\A path \in {DISCOVERY_CACHE, ENRICHMENT_CACHE}, id \in Ids :
          HoldsDegraded(files[path], path, id) =>
              /\ HoldsDegraded(files'[path], path, id)
              /\ (pc' = "call" /\ CachePath(stage') = path) => id \notin SeqIds(uncached')]_vars

----------------------------------------------------------------------------
(* Properties of the rows of one record *)

\* C38: when an operation has returned its summary, every identifier with an
\* events row has a sub_activities row and a vector entry
C38_EveryEventHasSubActivity ==
    (pc = "idle" /\ outcome = "ok") =>
        \A id \in DOMAIN db.events :
            /\ ActivitiesOf(db.sub_activities, id) # <<>>
            /\ ActivitiesOf(vec.rows, id) # <<>>

----------------------------------------------------------------------------
(* Properties of a refused exchange *)

\* the entries of the pending map that are at most 600 seconds old
Unexpired == {n \in DOMAIN _oauth_pending : clock - _oauth_pending[n].created_at <= 600}

\* C39 as stated: an exchange that raises ValueError leaves in the pending
\* map exactly the entries that have not expired
C39_RefusalKeepsPending ==
    [][(nexch' # nexch /\ exchanged'.result = "ValueError") =>
          /\ DOMAIN _oauth_pending' = Unexpired
          /\ \A n \in Unexpired : _oauth_pending'[n] = _oauth_pending[n]]_vars

\* C39 as amended: an exchange that raises ValueError leaves in the pending
\* map the entries that have not expired, less the entry of the nonce its
\* state names: a state without a colon or with a nonce that is not pending
\* removes nothing more, a pending nonce presented with another user id is
\* used up
C39_RefusalConsumesNamedNonce ==
    [][(nexch' # nexch /\ exchanged'.result = "ValueError") =>
          LET st == exchanged'.state
              named == IF st.parts = 2 THEN {st.nonce} ELSE {}
          IN  /\ DOMAIN _oauth_pending' = Unexpired \ named
              /\ \A n \in Unexpired \ named : _oauth_pending'[n] = _oauth_pending[n]]_vars

\* a nonce still pending and in time is presented, in the first exchange of
\* the run, under a user id other than the one it was issued for: the call
\* raises ValueError and the nonce is no longer pending
C39_MismatchUsesUpNonce ==
    /\ nexch = 1
    /\ exchanged.result = "ValueError"
    /\ exchanged.state.parts = 2
    /\ exchanged.state.nonce \in DOMAIN issued
    /\ issued[exchanged.state.nonce].user_id # exchanged.state.user_id_str
    /\ exchanged.at - issued[exchanged.state.nonce].created_at <= 600
    /\ exchanged.state.nonce \notin DOMAIN _oauth_pending

====
